---- MODULE Spec2Model ----
(***************************************************************************)
(* A model of ontomem's OMem store (src/ontomem/core/omem.py), its merge   *)
(* engine (src/ontomem/merger/base.py) and the classic merge policies      *)
(* (src/ontomem/merger/classic_merger/).                                   *)
(*                                                                         *)
(* Records follow the Profile schema of src/tests/unit/test_omem_merge.py: *)
(* a key field uid, a nullable scalar name (default None) and a list       *)
(* skills (default []).  Python dicts are functions whose DOMAIN is the    *)
(* dict's key set; Python's None is the string "None".                     *)
(***************************************************************************)
EXTENDS Integers, Sequences, FiniteSets, TLC

VARIABLES
    storage,            \* OMem._storage: key -> record
    lookups,            \* OMem._lookups: lookup name -> (value -> set of keys)
    lookup_extractors,  \* OMem._lookup_extractors: lookup name -> extractor
    index,              \* OMem._index: None, or the records the index was built from
    strategy,           \* the merge policy the store was constructed with
    history,            \* history variable: per key added and not removed since, the
                        \* left fold of pair_merge over the fragments submitted for it
    pc,                 \* position of the single-call harness (SpecCall)
    call_items,         \* the argument of the single add call (SpecCall)
    pre_storage,        \* the store before the single add call (SpecCall)
    batch_calls,        \* number of batch_merge calls the single add call issued
    merge_log,          \* the batch_merge calls of the single add call: pairs and results
    policy_fails,       \* environment: the merge policy's own merge step fails
                        \* (raises) whenever it runs during the call
    obs,                \* the observed call (SpecObserve): operation, argument,
                        \* outcome and the state the call started from
    disk                \* the folder the store is dumped to and loaded from

vars == <<storage, lookups, lookup_extractors, index, strategy, history,
          pc, call_items, pre_storage, batch_calls, merge_log, policy_fails, obs,
          disk>>

\* ------------------------------------------------------------------------
\* Bounds and input domains

None == "None"

MaxBatch == 2
MaxCallBatch == 4

Keys == {"k1", "k2"}
Names == {"a", "b"}
SkillLists == {<<>>, <<"p">>, <<"q">>}

Profile(uid, name, skills) == [uid |-> uid, name |-> name, skills |-> skills]

\* every schema-valid record: uid and name may be None, skills is always a list
Records == {Profile(u, n, s) : u \in Keys \cup {None}, n \in Names \cup {None}, s \in SkillLists}

\* ------------------------------------------------------------------------
\* dict helpers

Put(d, k, v) == [x \in (DOMAIN d) \cup {k} |-> IF x = k THEN v ELSE d[x]]
Del(d, k) == [x \in (DOMAIN d) \ {k} |-> d[x]]
EmptyDict == [x \in {} |-> None]

\* ------------------------------------------------------------------------
\* Merge policies (src/ontomem/merger/classic_merger)

Strategies == {"keep_existing", "keep_incoming", "merge_field"}

\* the policies a store can be constructed with: a MergeStrategy value or a
\* caller's BaseMerger subclass ("custom") that inherits batch_merge
Policies == Strategies \cup {"custom"}

\* mutant: the policy returns the other side
KeepExisting_returns_incoming(existing, incoming) == incoming

KeepExistingMerger_pair_merge(existing, incoming) == existing

\* mutant: the policy returns the other side
KeepNew_returns_existing(existing, incoming) == existing

KeepNewMerger_pair_merge(existing, incoming) == incoming

\* The schema: uid and name are nullable with default None, skills is a list
\* with default [] and is never None.
FieldNames == {"uid", "name", "skills"}
Nullable == {"uid", "name"}
FieldDefault(f) == IF f = "skills" THEN <<>> ELSE None
IsNone(item, f) == f \in Nullable /\ item[f] = None

\* mutant: model_dump() without exclude_none, so None fields are dumped too
model_dump_with_none(item) == [f \in FieldNames |-> item[f]]

\* item.model_dump(exclude_none=True): the fields whose value is not None
model_dump_exclude_none(item) ==
    [f \in {g \in FieldNames : ~IsNone(item, g)} |-> item[f]]

\* mutant: a list present on both sides is extended instead of replaced
dict_update_extending_lists(base, other) ==
    [f \in (DOMAIN base) \cup (DOMAIN other) |->
        IF f \in DOMAIN other
        THEN IF f = "skills" /\ f \in DOMAIN base THEN base[f] \o other[f] ELSE other[f]
        ELSE base[f]]

\* dict.update: other's entries win
dict_update(base, other) ==
    [f \in (DOMAIN base) \cup (DOMAIN other) |->
        IF f \in DOMAIN other THEN other[f] ELSE base[f]]

\* type(incoming)(**merged_data): a field missing from the keyword arguments
\* takes its default (every field of the schema has one, so construction
\* from dumped schema values cannot fail)
construct(data) ==
    [f \in FieldNames |-> IF f \in DOMAIN data THEN data[f] ELSE FieldDefault(f)]

\* FieldMerger.pair_merge: a failure of the merge step is caught and the
\* incoming item is returned
FieldMerger_pair_merge(existing, incoming) ==
    IF policy_fails
    THEN incoming
    ELSE construct(dict_update(model_dump_exclude_none(existing),
                               model_dump_exclude_none(incoming)))

\* a caller's subclass of BaseMerger that keeps the newer item (the example
\* of BaseMerger's docstring); when its merge step fails, it raises
Custom_pair_merge(existing, incoming) == incoming

\* the policies whose merge step can fail: KeepExisting and KeepIncoming
\* return one of their arguments
CanFail(s) == s \in {"merge_field", "custom"}

\* whether pair_merge raises: the classic policies have no failing step or
\* catch it, the caller's subclass does not
pair_merge_raises(s) == s = "custom" /\ policy_fails

\* a caller's subclass of BaseMerger over items that name the fragments they
\* stand for, the fragments lo..hi of their key's list: the merged item
\* stands for the fragments of both sides
Span_pair_merge(existing, incoming) ==
    [uid |-> existing.uid, lo |-> existing.lo, hi |-> incoming.hi]

\* a caller's subclass of BaseMerger whose merged record carries a key of its
\* own: it files every record under the canonical key "k2" (a remote model
\* asked for a schema instance is as free in the key it writes)
Rekey_pair_merge(existing, incoming) == [incoming EXCEPT !.uid = "k2"]

\* the caller's policies that break the engine's expectations: "short"
\* overrides batch_merge and returns one result too few, "rekey" returns
\* records under another key
BrokenPolicies == {"short", "rekey"}

pair_merge(s, existing, incoming) ==
    CASE s = "keep_existing" -> KeepExistingMerger_pair_merge(existing, incoming)
      [] s = "keep_incoming" -> KeepNewMerger_pair_merge(existing, incoming)
      [] s = "merge_field"   -> FieldMerger_pair_merge(existing, incoming)
      [] s = "custom"        -> Custom_pair_merge(existing, incoming)
      [] s = "span"          -> Span_pair_merge(existing, incoming)
      [] s = "short"         -> Custom_pair_merge(existing, incoming)
      [] s = "rekey"         -> Rekey_pair_merge(existing, incoming)

\* BaseMerger.batch_merge: pair_merge on each pair, results in input order;
\* the override of the "short" policy leaves the last result out
batch_merge(s, pairs) ==
    [i \in 1..(IF s = "short" THEN Len(pairs) - 1 ELSE Len(pairs)) |->
        pair_merge(s, pairs[i][1], pairs[i][2])]

\* BaseMerger.batch_merge calls pair_merge without a try: an exception of
\* pair_merge on any pair leaves batch_merge
batch_merge_raises(s, pairs) == pairs # <<>> /\ pair_merge_raises(s)

key_extractor(item) == item.uid

\* a schema instance on which the caller's key extractor raises
Unkeyable == [uid |-> "unkeyable", name |-> None, skills |-> <<>>]
key_extractor_raises(item) == item = Unkeyable

\* ------------------------------------------------------------------------
\* Merge engine (src/ontomem/merger/base.py)
\* A dict that is iterated is a sequence of entries in insertion order.

KeyIndex(groups, key) ==
    IF \E i \in 1..Len(groups) : groups[i].key = key
    THEN CHOOSE i \in 1..Len(groups) : groups[i].key = key
    ELSE 0

\* groups[key].append(item), creating the entry on the key's first sighting
GroupAppend(groups, key, item) ==
    LET i == KeyIndex(groups, key)
    IN  IF i = 0
        THEN Append(groups, [key |-> key, items |-> <<item>>])
        ELSE [groups EXCEPT ![i].items = Append(@, item)]

RECURSIVE GroupFrom(_, _, _)
GroupFrom(items, i, groups) ==
    IF i > Len(items) THEN groups
    ELSE LET key == key_extractor(items[i])
         IN  IF key # None
             THEN GroupFrom(items, i + 1, GroupAppend(groups, key, items[i]))
             ELSE GroupFrom(items, i + 1, groups)

\* BaseMerger._group_by_key: items whose key is None are skipped
group_by_key(items) == GroupFrom(items, 1, <<>>)

\* mutant: only the first two items of a list are paired in a round
PairsOf_first_pair_only(current_items) ==
    [j \in 1..(IF Len(current_items) <= 1 THEN 0 ELSE 1) |->
        <<current_items[2 * j - 1], current_items[2 * j]>>]

\* mutant: an odd list is paired from its end, its first item left out
PairsOf_from_the_end(current_items) ==
    [j \in 1..(IF Len(current_items) <= 1 THEN 0 ELSE Len(current_items) \div 2) |->
        IF Len(current_items) % 2 = 1
        THEN <<current_items[2 * j], current_items[2 * j + 1]>>
        ELSE <<current_items[2 * j - 1], current_items[2 * j]>>]

\* the pairs (0,1), (2,3), ... of one key's current list
PairsOf(current_items) ==
    [j \in 1..(IF Len(current_items) <= 1 THEN 0 ELSE Len(current_items) \div 2) |->
        <<current_items[2 * j - 1], current_items[2 * j]>>]

RECURSIVE CollectPairs(_, _)
CollectPairs(key_rounds, i) ==
    IF i > Len(key_rounds) THEN <<>>
    ELSE PairsOf(key_rounds[i].items) \o CollectPairs(key_rounds, i + 1)

RECURSIVE CollectPairKeys(_, _)
CollectPairKeys(key_rounds, i) ==
    IF i > Len(key_rounds) THEN <<>>
    ELSE [j \in 1..Len(PairsOf(key_rounds[i].items)) |-> key_rounds[i].key]
         \o CollectPairKeys(key_rounds, i + 1)

\* sum(1 for k in pair_to_key if k == key)
key_pair_count(pair_to_key, key) ==
    Cardinality({j \in 1..Len(pair_to_key) : pair_to_key[j] = key})

\* mutant: the odd trailing item is not carried over
OddItem_dropped(current_items) == <<>>

\* the odd trailing item of a list, if any
OddItem(current_items) ==
    IF Len(current_items) % 2 = 1 THEN <<current_items[Len(current_items)]>> ELSE <<>>

\* mutant: the odd trailing item is put before the merged results
RECURSIVE Distribute_odd_first(_, _, _, _, _)
Distribute_odd_first(key_rounds, pair_to_key, merged_results, i, result_idx) ==
    IF i > Len(key_rounds) THEN key_rounds
    ELSE IF Len(key_rounds[i].items) <= 1
         THEN Distribute_odd_first(key_rounds, pair_to_key, merged_results, i + 1, result_idx)
         ELSE LET n == key_pair_count(pair_to_key, key_rounds[i].key)
                  next_round == OddItem(key_rounds[i].items)
                                \o SubSeq(merged_results, result_idx + 1, result_idx + n)
              IN  Distribute_odd_first([key_rounds EXCEPT ![i].items = next_round],
                                       pair_to_key, merged_results, i + 1, result_idx + n)

\* mutant: every key takes its results from the start of merged_results
RECURSIVE Distribute_from_start(_, _, _, _, _)
Distribute_from_start(key_rounds, pair_to_key, merged_results, i, result_idx) ==
    IF i > Len(key_rounds) THEN key_rounds
    ELSE IF Len(key_rounds[i].items) <= 1
         THEN Distribute_from_start(key_rounds, pair_to_key, merged_results, i + 1, result_idx)
         ELSE LET n == key_pair_count(pair_to_key, key_rounds[i].key)
                  next_round == SubSeq(merged_results, 1, n)
                                \o OddItem(key_rounds[i].items)
              IN  Distribute_from_start([key_rounds EXCEPT ![i].items = next_round],
                                        pair_to_key, merged_results, i + 1, result_idx + n)

\* the redistribution loop: result_idx results have been handed out so far
RECURSIVE Distribute(_, _, _, _, _)
Distribute(key_rounds, pair_to_key, merged_results, i, result_idx) ==
    IF i > Len(key_rounds) THEN key_rounds
    ELSE IF Len(key_rounds[i].items) <= 1
         THEN Distribute(key_rounds, pair_to_key, merged_results, i + 1, result_idx)
         ELSE LET n == key_pair_count(pair_to_key, key_rounds[i].key)
                  next_round == SubSeq(merged_results, result_idx + 1, result_idx + n)
                                \o OddItem(key_rounds[i].items)
              IN  Distribute([key_rounds EXCEPT ![i].items = next_round],
                             pair_to_key, merged_results, i + 1, result_idx + n)

\* mutant: every key's pairs go to batch_merge in a call of their own
RECURSIVE PerKeyCalls(_, _, _)
PerKeyCalls(s, key_rounds, i) ==
    IF i > Len(key_rounds) THEN <<>>
    ELSE (IF Len(key_rounds[i].items) <= 1 THEN <<>>
          ELSE <<[pairs |-> PairsOf(key_rounds[i].items),
                  results |-> batch_merge(s, PairsOf(key_rounds[i].items))]>>)
         \o PerKeyCalls(s, key_rounds, i + 1)

RECURSIVE TournamentLoop_per_key(_, _, _)
TournamentLoop_per_key(s, key_rounds, log) ==
    IF \E i \in 1..Len(key_rounds) : Len(key_rounds[i].items) > 1
    THEN LET all_pairs == CollectPairs(key_rounds, 1)
             pair_to_key == CollectPairKeys(key_rounds, 1)
             merged_results == batch_merge(s, all_pairs)
         IN  TournamentLoop_per_key(s,
                 Distribute(key_rounds, pair_to_key, merged_results, 1, 0),
                 log \o PerKeyCalls(s, key_rounds, 1))
    ELSE [items |-> [i \in 1..Len(key_rounds) |-> key_rounds[i].items[1]],
          log |-> log, raised |-> FALSE, exc |-> "None"]

\* the while loop of _cross_key_tournament_merge; log holds one entry per
\* batch_merge call made so far: the pairs handed over and the results, and
\* key_rounds as the round found it and as the round left it
RECURSIVE TournamentLoop(_, _, _)
TournamentLoop(s, key_rounds, log) ==
    IF \E i \in 1..Len(key_rounds) : Len(key_rounds[i].items) > 1
    THEN LET all_pairs == CollectPairs(key_rounds, 1)
             pair_to_key == CollectPairKeys(key_rounds, 1)
             merged_results == batch_merge(s, all_pairs)
         IN  IF all_pairs # <<>>
             THEN IF batch_merge_raises(s, all_pairs)
                  THEN [items |-> <<>>, log |-> log, raised |-> TRUE, exc |-> "PolicyError"]
                  ELSE IF Len(merged_results) < Len(all_pairs)
                  THEN [items |-> <<>>, log |-> log, raised |-> TRUE, exc |-> "IndexError"]
                  ELSE TournamentLoop(s,
                           Distribute(key_rounds, pair_to_key, merged_results, 1, 0),
                           Append(log, [pairs |-> all_pairs, results |-> merged_results,
                                        key_rounds |-> key_rounds,
                                        next_rounds |-> Distribute(key_rounds, pair_to_key,
                                                                   merged_results, 1, 0)]))
             ELSE TournamentLoop(s, key_rounds, log)
    ELSE [items |-> [i \in 1..Len(key_rounds) |-> key_rounds[i].items[1]],
          log |-> log, raised |-> FALSE, exc |-> "None"]

\* BaseMerger._cross_key_tournament_merge: max() over no groups raises ValueError
cross_key_tournament_merge(s, groups) ==
    IF groups = <<>>
    THEN [items |-> <<>>, log |-> <<>>, raised |-> TRUE, exc |-> "ValueError"]
    ELSE TournamentLoop(s, groups, <<>>)

\* BaseMerger.merge
merge(s, items) ==
    IF items = <<>>
    THEN [items |-> <<>>, log |-> <<>>, raised |-> FALSE, exc |-> "None"]
    ELSE cross_key_tournament_merge(s, group_by_key(items))

\* ------------------------------------------------------------------------
\* Secondary indices (src/ontomem/core/omem.py)

LookupNames == {"by_name", "by_skill"}
Extractors == {"name", "first_skill", "skills"}

\* The caller's extractor applied to an item:
\*   "name":        lambda x: x.name        (None when the name is None)
\*   "first_skill": lambda x: x.skills[0]   (IndexError on an empty list)
\*   "skills":      lambda x: x.skills      (a list: not hashable)
call_extractor(ext, item) ==
    CASE ext = "name" ->
            IF item.name = None THEN [tag |-> "none"] ELSE [tag |-> "value", val |-> item.name]
      [] ext = "first_skill" ->
            IF item.skills = <<>> THEN [tag |-> "raise"]
            ELSE [tag |-> "value", val |-> item.skills[1]]
      [] ext = "skills" -> [tag |-> "unhashable"]

\* OMem._add_to_lookup: a None value returns early, an unhashable value or a
\* raising extractor is caught and logged
add_to_lookup(lks, exts, lookup_name, pk, item) ==
    LET r == call_extractor(exts[lookup_name], item)
    IN  IF r.tag # "value" THEN lks
        ELSE LET buckets == lks[lookup_name]
                 bucket == IF r.val \in DOMAIN buckets THEN buckets[r.val] ELSE {}
             IN  [lks EXCEPT ![lookup_name] = Put(buckets, r.val, bucket \cup {pk})]

\* mutant: the whole bucket is deleted with the key
remove_from_lookup_dropping_bucket(lks, exts, lookup_name, pk, item) ==
    LET r == call_extractor(exts[lookup_name], item)
    IN  IF r.tag # "value" THEN lks
        ELSE LET buckets == lks[lookup_name]
             IN  IF r.val \in DOMAIN buckets /\ pk \in buckets[r.val]
                 THEN [lks EXCEPT ![lookup_name] = Del(buckets, r.val)]
                 ELSE lks

\* OMem._remove_from_lookup: empty buckets are deleted
remove_from_lookup(lks, exts, lookup_name, pk, item) ==
    LET r == call_extractor(exts[lookup_name], item)
    IN  IF r.tag # "value" THEN lks
        ELSE LET buckets == lks[lookup_name]
             IN  IF r.val \in DOMAIN buckets /\ pk \in buckets[r.val]
                 THEN IF buckets[r.val] \ {pk} = {}
                      THEN [lks EXCEPT ![lookup_name] = Del(buckets, r.val)]
                      ELSE [lks EXCEPT ![lookup_name] = Put(buckets, r.val, buckets[r.val] \ {pk})]
                 ELSE lks

\* mutant: the addition is applied before the eviction
update_one_lookup_add_first(lks, exts, name, pk, new_item, old_item) ==
    LET added == add_to_lookup(lks, exts, name, pk, new_item)
    IN  IF old_item # <<>>
        THEN remove_from_lookup(added, exts, name, pk, old_item[1])
        ELSE added

\* mutant: the old item is not evicted
update_one_lookup_no_evict(lks, exts, name, pk, new_item, old_item) ==
    add_to_lookup(lks, exts, name, pk, new_item)

\* the body of the loop of _update_all_lookups for one lookup; old_item is
\* an Optional: <<>> for None, <<item>> otherwise
update_one_lookup(lks, exts, name, pk, new_item, old_item) ==
    LET removed == IF old_item # <<>>
                   THEN remove_from_lookup(lks, exts, name, pk, old_item[1])
                   ELSE lks
    IN  add_to_lookup(removed, exts, name, pk, new_item)

RECURSIVE UpdateLookupsOver(_, _, _, _, _, _)
UpdateLookupsOver(lks, exts, names, pk, new_item, old_item) ==
    IF names = {} THEN lks
    ELSE LET name == CHOOSE n \in names : TRUE
         IN  UpdateLookupsOver(update_one_lookup(lks, exts, name, pk, new_item, old_item),
                               exts, names \ {name}, pk, new_item, old_item)

\* OMem._update_all_lookups
update_all_lookups(lks, exts, pk, new_item, old_item) ==
    UpdateLookupsOver(lks, exts, DOMAIN lks, pk, new_item, old_item)

\* OMem.get_by_lookup: the records of the bucket's keys that resolve
get_by_lookup(st, lks, lookup_name, lookup_key) ==
    IF lookup_name \notin DOMAIN lks THEN {}
    ELSE IF lookup_key \notin DOMAIN lks[lookup_name] THEN {}
    ELSE {st[pk] : pk \in {k \in lks[lookup_name][lookup_key] : k \in DOMAIN st}}

\* the values a caller may query: a string, None, or a list (not hashable)
QueryValues ==
    {[tag |-> "value", val |-> "a"], [tag |-> "value", val |-> "p"],
     [tag |-> "none"], [tag |-> "unhashable"]}

\* OMem.get_by_lookup called with any value: "lookup_key not in target_lookup"
\* hashes the value, which raises TypeError when it is not hashable; None is
\* hashable and is never a bucket's value
get_by_lookup_any(st, lks, lookup_name, q) ==
    IF lookup_name \notin DOMAIN lks THEN [exc |-> "None", result |-> {}]
    ELSE IF q.tag = "unhashable" THEN [exc |-> "TypeError", result |-> {}]
    ELSE IF q.tag = "none" THEN [exc |-> "None", result |-> {}]
    ELSE [exc |-> "None", result |-> get_by_lookup(st, lks, lookup_name, q.val)]

\* ------------------------------------------------------------------------
\* OMem.add

NoIndex == [built |-> FALSE, docs |-> EmptyDict]

RECURSIVE KeyToItemsFrom(_, _, _)
KeyToItemsFrom(items, i, groups) ==
    IF i > Len(items) THEN groups
    ELSE KeyToItemsFrom(items, i + 1, GroupAppend(groups, key_extractor(items[i]), items[i]))

\* key_to_items: the input grouped by key, None included
key_to_items(items) == KeyToItemsFrom(items, 1, <<>>)

RECURSIVE ToInsertFrom(_, _, _)
ToInsertFrom(st, groups, i) ==
    IF i > Len(groups) THEN <<>>
    ELSE (IF Len(groups[i].items) = 1 /\ groups[i].key \notin DOMAIN st
          THEN <<groups[i].items[1]>>
          ELSE <<>>) \o ToInsertFrom(st, groups, i + 1)

\* mutant: the stored record is put after the fragments of the call
RECURSIVE ToMergeFrom_existing_last(_, _, _)
ToMergeFrom_existing_last(st, groups, i) ==
    IF i > Len(groups) THEN <<>>
    ELSE (IF Len(groups[i].items) = 1 /\ groups[i].key \notin DOMAIN st
          THEN <<>>
          ELSE groups[i].items
               \o (IF groups[i].key \in DOMAIN st THEN <<st[groups[i].key]>> ELSE <<>>))
         \o ToMergeFrom_existing_last(st, groups, i + 1)

\* mutant: a key with one fragment in the call is never a merge candidate
RECURSIVE ToMergeFrom_skipping_single(_, _, _)
ToMergeFrom_skipping_single(st, groups, i) ==
    IF i > Len(groups) THEN <<>>
    ELSE (IF Len(groups[i].items) = 1
          THEN <<>>
          ELSE (IF groups[i].key \in DOMAIN st THEN <<st[groups[i].key]>> ELSE <<>>)
               \o groups[i].items) \o ToMergeFrom_skipping_single(st, groups, i + 1)

RECURSIVE ToMergeFrom(_, _, _)
ToMergeFrom(st, groups, i) ==
    IF i > Len(groups) THEN <<>>
    ELSE (IF Len(groups[i].items) = 1 /\ groups[i].key \notin DOMAIN st
          THEN <<>>
          ELSE (IF groups[i].key \in DOMAIN st THEN <<st[groups[i].key]>> ELSE <<>>)
               \o groups[i].items) \o ToMergeFrom(st, groups, i + 1)

\* the partition of add: direct inserts and merge candidates
to_insert(st, items) == ToInsertFrom(st, key_to_items(items), 1)
to_merge(st, items) == ToMergeFrom(st, key_to_items(items), 1)

\* old_items_map: the stored record of every key of to_merge that is stored
old_items_map(st, merge_items) ==
    [pk \in {key_extractor(merge_items[i]) : i \in 1..Len(merge_items)} \cap DOMAIN st |-> st[pk]]

\* {key_extractor(item): item for item in merged_items}: the last item wins
merged_dict(merged_items) ==
    [pk \in {key_extractor(merged_items[i]) : i \in 1..Len(merged_items)} |->
        merged_items[CHOOSE i \in 1..Len(merged_items) :
            /\ key_extractor(merged_items[i]) = pk
            /\ \A j \in (i + 1)..Len(merged_items) : key_extractor(merged_items[j]) # pk]]

\* the lookup updates of the merged keys
RECURSIVE UpdateMerged(_, _, _, _, _)
UpdateMerged(lks, exts, md, old_map, pks) ==
    IF pks = {} THEN lks
    ELSE LET pk == CHOOSE k \in pks : TRUE
             old_item == IF pk \in DOMAIN old_map THEN <<old_map[pk]>> ELSE <<>>
         IN  UpdateMerged(update_all_lookups(lks, exts, pk, md[pk], old_item),
                          exts, md, old_map, pks \ {pk})

\* the direct inserts: store the item, add it to every lookup
RECURSIVE DirectInsert(_, _, _, _)
DirectInsert(st, lks, exts, ins) ==
    IF ins = <<>> THEN [storage |-> st, lookups |-> lks]
    ELSE LET pk == key_extractor(Head(ins))
         IN  DirectInsert(Put(st, pk, Head(ins)),
                          update_all_lookups(lks, exts, pk, Head(ins), <<>>),
                          exts, Tail(ins))

\* an object that is not an instance of the schema (the string of
\* test_invalid_item_in_batch)
NotAnInstance == [cls |-> "str"]

\* isinstance(item, self.memory_schema)
isinstance(item) == DOMAIN item = FieldNames

\* mutant: the direct inserts are applied before the merge is attempted
add_instances_inserting_first(st, lks, exts, idx, s, items) ==
    LET ins == to_insert(st, items)
        mrg == to_merge(st, items)
        old_map == old_items_map(st, mrg)
        m == merge(s, mrg)
        md == merged_dict(m.items)
        first == DirectInsert(st, lks, exts, ins)
        st1 == IF mrg # <<>> THEN dict_update(first.storage, md) ELSE first.storage
        lks1 == IF mrg # <<>>
                THEN UpdateMerged(first.lookups, exts, md, old_map, DOMAIN md)
                ELSE first.lookups
    IN  IF mrg # <<>> /\ m.raised
        THEN [raised |-> TRUE, exc |-> m.exc, storage |-> first.storage,
              lookups |-> first.lookups, index |-> idx, log |-> <<>>]
        ELSE [raised |-> FALSE, exc |-> "None", storage |-> st1,
              lookups |-> lks1, index |-> NoIndex, log |-> m.log]

\* OMem.add after its type validation, on a list of schema instances.  The
\* result says whether the call raised (the merge engine raising: nothing has
\* been mutated by then), the state it leaves and the batches handed to
\* batch_merge.
add_instances(st, lks, exts, idx, s, items) ==
    LET ins == to_insert(st, items)
        mrg == to_merge(st, items)
        old_map == old_items_map(st, mrg)
        m == merge(s, mrg)
        md == merged_dict(m.items)
        st1 == IF mrg # <<>> THEN dict_update(st, md) ELSE st
        lks1 == IF mrg # <<>> THEN UpdateMerged(lks, exts, md, old_map, DOMAIN md) ELSE lks
        fin == DirectInsert(st1, lks1, exts, ins)
    IN  IF mrg # <<>> /\ m.raised
        THEN [raised |-> TRUE, exc |-> m.exc, storage |-> st, lookups |-> lks,
              index |-> idx, log |-> <<>>]
        ELSE [raised |-> FALSE, exc |-> "None", storage |-> fin.storage,
              lookups |-> fin.lookups, index |-> NoIndex, log |-> m.log]

\* mutant: each item is validated when its turn comes, after the items before
\* it have been stored
add_validating_late(st, lks, exts, idx, s, items) ==
    IF items = <<>>
    THEN [raised |-> FALSE, exc |-> "None", storage |-> st, lookups |-> lks,
          index |-> idx, log |-> <<>>]
    ELSE IF \E i \in 1..Len(items) : ~isinstance(items[i])
    THEN LET bad == CHOOSE i \in 1..Len(items) :
                        /\ ~isinstance(items[i])
                        /\ \A j \in 1..(i - 1) : isinstance(items[j])
             r == add_instances(st, lks, exts, idx, s, SubSeq(items, 1, bad - 1))
         IN  IF bad = 1
             THEN [raised |-> TRUE, exc |-> "TypeError", storage |-> st, lookups |-> lks,
                   index |-> idx, log |-> <<>>]
             ELSE [r EXCEPT !.raised = TRUE, !.exc = "TypeError"]
    ELSE add_instances(st, lks, exts, idx, s, items)

\* OMem.add: an empty list returns at once; an item that is not an instance
\* of the schema raises TypeError before anything is grouped or stored, and
\* the grouping loop lets an exception of the key extractor through
add(st, lks, exts, idx, s, items) ==
    IF items = <<>>
    THEN [raised |-> FALSE, exc |-> "None", storage |-> st, lookups |-> lks,
          index |-> idx, log |-> <<>>]
    ELSE IF \E i \in 1..Len(items) : ~isinstance(items[i])
    THEN [raised |-> TRUE, exc |-> "TypeError", storage |-> st, lookups |-> lks,
          index |-> idx, log |-> <<>>]
    ELSE IF \E i \in 1..Len(items) : key_extractor_raises(items[i])
    THEN [raised |-> TRUE, exc |-> "ExtractorError", storage |-> st, lookups |-> lks,
          index |-> idx, log |-> <<>>]
    ELSE add_instances(st, lks, exts, idx, s, items)

\* the loop of remove over the lookups
RECURSIVE RemoveFromLookupsOver(_, _, _, _, _)
RemoveFromLookupsOver(lks, exts, names, key, item) ==
    IF names = {} THEN lks
    ELSE LET name == CHOOSE n \in names : TRUE
         IN  RemoveFromLookupsOver(remove_from_lookup(lks, exts, name, key, item),
                                   exts, names \ {name}, key, item)

\* mutant: the entry is deleted, the lookups are left alone
remove_without_purge(st, lks, exts, idx, key) ==
    IF key \in DOMAIN st
    THEN [ret |-> TRUE, storage |-> Del(st, key), lookups |-> lks, index |-> NoIndex]
    ELSE [ret |-> FALSE, storage |-> st, lookups |-> lks, index |-> idx]

\* mutant: the index is cleared whether or not the key is stored
remove_clearing_index(st, lks, exts, idx, key) ==
    IF key \in DOMAIN st
    THEN [ret |-> TRUE, storage |-> Del(st, key),
          lookups |-> RemoveFromLookupsOver(lks, exts, DOMAIN lks, key, st[key]),
          index |-> NoIndex]
    ELSE [ret |-> FALSE, storage |-> st, lookups |-> lks, index |-> NoIndex]

\* OMem.remove: a stored key is purged from the lookups (by the record about
\* to be deleted), its entry is deleted and the index is cleared
remove(st, lks, exts, idx, key) ==
    IF key \in DOMAIN st
    THEN [ret |-> TRUE, storage |-> Del(st, key),
          lookups |-> RemoveFromLookupsOver(lks, exts, DOMAIN lks, key, st[key]),
          index |-> NoIndex]
    ELSE [ret |-> FALSE, storage |-> st, lookups |-> lks, index |-> idx]

\* mutant: the back-fill gives up as a whole when one record cannot be indexed
ReindexOver_all_or_nothing(lks, exts, name, st, pks) ==
    IF \E pk \in pks : call_extractor(exts[name], st[pk]).tag # "value"
    THEN lks
    ELSE LET vals == {call_extractor(exts[name], st[pk]).val : pk \in pks}
         IN  [lks EXCEPT ![name] =
                 [v \in vals |-> {pk \in pks : call_extractor(exts[name], st[pk]).val = v}]]

\* the re-indexing loop of create_lookup
RECURSIVE ReindexOver(_, _, _, _, _)
ReindexOver(lks, exts, name, st, pks) ==
    IF pks = {} THEN lks
    ELSE LET pk == CHOOSE k \in pks : TRUE
         IN  ReindexOver(add_to_lookup(lks, exts, name, pk, st[pk]), exts, name, st, pks \ {pk})

\* mutant: a registered name is registered again, replacing the lookup
create_lookup_replacing(st, lks, exts, name, ext) ==
    [exc |-> "None",
     lookup_extractors |-> Put(exts, name, ext),
     lookups |-> ReindexOver(Put(lks, name, EmptyDict), Put(exts, name, ext), name,
                             st, DOMAIN st)]

\* OMem.create_lookup: a registered name raises ValueError, a new name is
\* registered and back-filled from the store
create_lookup(st, lks, exts, name, ext) ==
    IF name \in DOMAIN lks
    THEN [exc |-> "ValueError", lookup_extractors |-> exts, lookups |-> lks]
    ELSE [exc |-> "None",
          lookup_extractors |-> Put(exts, name, ext),
          lookups |-> ReindexOver(Put(lks, name, EmptyDict), Put(exts, name, ext), name,
                                  st, DOMAIN st)]

\* mutant: dropping one lookup drops them all
drop_lookup_all(lks, exts, name) ==
    IF name \in DOMAIN lks
    THEN [ret |-> TRUE, lookups |-> EmptyDict, lookup_extractors |-> EmptyDict]
    ELSE [ret |-> FALSE, lookups |-> lks, lookup_extractors |-> exts]

\* OMem.drop_lookup
drop_lookup(lks, exts, name) ==
    IF name \in DOMAIN lks
    THEN [ret |-> TRUE, lookups |-> Del(lks, name), lookup_extractors |-> Del(exts, name)]
    ELSE [ret |-> FALSE, lookups |-> lks, lookup_extractors |-> exts]

\* ------------------------------------------------------------------------
\* Persistence (src/ontomem/core/omem.py, src/ontomem/core/base.py)

MaxDumps == 2

\* The folder before anything was written to it.  data is the content of
\* memory.json, size the size recorded in metadata.json, index_docs the
\* records the saved index was built from; source and dumps are history
\* fields: the store the data file was last written from and the number of
\* times it was written (counted up to MaxDumps).
NoDisk ==
    [has_data |-> FALSE, data |-> <<>>, source |-> EmptyDict, dumps |-> 0,
     has_meta |-> FALSE, size |-> 0,
     has_index |-> FALSE, index_docs |-> EmptyDict]

\* the environment of one persistence call: the file or folder of the call
\* can be opened, or opening it fails
Faults == {"none", "io"}

\* item.model_dump(mode="json") as json.dump writes it: None becomes null, a
\* str a JSON string, a list a JSON array
model_dump_json(item) ==
    [f \in FieldNames |->
        IF IsNone(item, f) THEN [type |-> "null"]
        ELSE IF f = "skills" THEN [type |-> "array", value |-> item[f]]
        ELSE [type |-> "string", value |-> item[f]]]

\* self.memory_schema(**d) on an object read by json.load: null becomes None,
\* a field missing from the object takes its default
memory_schema(d) ==
    [f \in FieldNames |->
        IF f \in DOMAIN d
        THEN IF d[f].type = "null" THEN None ELSE d[f].value
        ELSE FieldDefault(f)]

\* OMem.items: list(self._storage.values()), in the dict's order
RECURSIVE OMem_items_list(_)
OMem_items_list(st) ==
    IF DOMAIN st = {} THEN <<>>
    ELSE LET k == CHOOSE x \in DOMAIN st : TRUE
         IN  <<st[k]>> \o OMem_items_list(Del(st, k))

\* mutant: the data file is opened for appending
dump_data_appending(d, st, fault) ==
    IF fault = "io"
    THEN [exc |-> "OSError", disk |-> d]
    ELSE [exc |-> "None",
          disk |-> [d EXCEPT !.has_data = TRUE,
                             !.data = d.data \o [i \in 1..Len(OMem_items_list(st)) |->
                                          model_dump_json(OMem_items_list(st)[i])],
                             !.source = st,
                             !.dumps = IF d.dumps < MaxDumps THEN d.dumps + 1 ELSE d.dumps]]

\* OMem.dump_data: open(file_path, "w") truncates the file; a failure is
\* logged and raised again
dump_data(d, st, fault) ==
    IF fault = "io"
    THEN [exc |-> "OSError", disk |-> d]
    ELSE [exc |-> "None",
          disk |-> [d EXCEPT !.has_data = TRUE,
                             !.data = [i \in 1..Len(OMem_items_list(st)) |->
                                          model_dump_json(OMem_items_list(st)[i])],
                             !.source = st,
                             !.dumps = IF d.dumps < MaxDumps THEN d.dumps + 1 ELSE d.dumps]]

\* OMem.dump_metadata: a failure is logged as a warning, nothing is raised
dump_metadata(d, st, fault) ==
    IF fault = "io"
    THEN [exc |-> "None", disk |-> d]
    ELSE [exc |-> "None",
          disk |-> [d EXCEPT !.has_meta = TRUE, !.size = Cardinality(DOMAIN st)]]

\* OMem.dump_index: returns when no index is built; a failure is raised again
dump_index(d, idx, fault) ==
    IF ~idx.built
    THEN [exc |-> "None", disk |-> d]
    ELSE IF fault = "io"
         THEN [exc |-> "OSError", disk |-> d]
         ELSE [exc |-> "None",
               disk |-> [d EXCEPT !.has_index = TRUE, !.index_docs = idx.docs]]

\* BaseMemory.dump: data, metadata, index, in this order
dump(d, st, idx) ==
    LET r1 == dump_data(d, st, "none")
        r2 == dump_metadata(r1.disk, st, "none")
    IN  dump_index(r2.disk, idx, "none")

\* what a load leaves: the exception raised, if any, and the store
Loaded(exc, st, lks, idx) == [exc |-> exc, storage |-> st, lookups |-> lks, index |-> idx]

\* the outcome of load_data once add has returned or raised
AfterAdd(r) == Loaded(r.exc, r.storage, r.lookups, r.index)

\* [self.memory_schema(**d) for d in data]
parse_items(data) == [i \in 1..Len(data) |-> memory_schema(data[i])]

\* OMem.load_data: a missing file raises FileNotFoundError; the objects read
\* are turned into schema instances and handed to add; any failure is raised
load_data(d, st, lks, exts, idx, s, fault) ==
    IF ~d.has_data
    THEN Loaded("FileNotFoundError", st, lks, idx)
    ELSE IF fault = "io"
         THEN Loaded("OSError", st, lks, idx)
         ELSE AfterAdd(add(st, lks, exts, idx, s, parse_items(d.data)))

\* OMem.load_metadata: a missing file is skipped, a failure is logged as a
\* warning; nothing is raised and nothing of the store changes
load_metadata(d, st, lks, idx, fault) ==
    IF ~d.has_meta
    THEN Loaded("None", st, lks, idx)
    ELSE IF fault = "io"
         THEN Loaded("None", st, lks, idx)
         ELSE Loaded("None", st, lks, idx)

\* OMem.load_index: a missing folder is skipped; a failure resets the index
\* and is raised again
load_index(d, st, lks, idx, fault) ==
    IF ~d.has_index
    THEN Loaded("None", st, lks, idx)
    ELSE IF fault = "io"
         THEN Loaded("OSError", st, lks, NoIndex)
         ELSE Loaded("None", st, lks, [built |-> TRUE, docs |-> d.index_docs])

\* the rest of BaseMemory.load once load_data has returned or raised
AfterLoadData(d, r) ==
    IF r.exc # "None" THEN r
    ELSE load_index(d, r.storage, r.lookups,
                    load_metadata(d, r.storage, r.lookups, r.index, "none").index, "none")

\* BaseMemory.load: data, metadata, index, in this order
load(d, st, lks, exts, idx, s) ==
    AfterLoadData(d, load_data(d, st, lks, exts, idx, s, "none"))

\* ------------------------------------------------------------------------
\* History of the fragments submitted per key

RECURSIVE FoldLeft(_, _, _, _)
FoldLeft(s, acc, frags, i) ==
    IF i > Len(frags) THEN acc
    ELSE FoldLeft(s, pair_merge(s, acc, frags[i]), frags, i + 1)

\* the fragments of a call that carry the key, in submission order
FragmentsOf(items, key) == SelectSeq(items, LAMBDA it : key_extractor(it) = key)

\* the history after an add that returned normally: a fragment whose key is
\* None submits nothing for any key
HistoryAfterAdd(h, s, items) ==
    LET ks == {key_extractor(items[i]) : i \in 1..Len(items)} \ {None}
    IN  [k \in (DOMAIN h) \cup ks |->
            IF k \notin ks THEN h[k]
            ELSE LET frags == FragmentsOf(items, k)
                 IN  IF k \in DOMAIN h
                     THEN FoldLeft(s, h[k], frags, 1)
                     ELSE FoldLeft(s, frags[1], frags, 2)]

\* ------------------------------------------------------------------------
\* The store as a state machine: one action per public operation

\* the fragments callers submit to the store
Fragments ==
    { Profile("k1", "a", <<"p">>), Profile("k1", "b", <<>>), Profile("k1", None, <<"q">>),
      Profile("k2", "a", <<"p">>),
      Profile(None, "a", <<"p">>) }

\* the extractors callers register under each lookup name
ExtractorsFor(name) == IF name = "by_name" THEN {"name"} ELSE Extractors \ {"name"}

RECURSIVE SeqsUpTo(_, _)
SeqsUpTo(S, n) ==
    IF n = 0 THEN {<<>>}
    ELSE LET shorter == SeqsUpTo(S, n - 1)
         IN  shorter \cup {Append(q, x) : q \in {r \in shorter : Len(r) = n - 1}, x \in S}

Batches == SeqsUpTo(Fragments, MaxBatch)
StoreKeys == Keys \cup {None}

\* inputs of add that hold an object that is not a schema instance, alone or
\* after or before valid fragments
InvalidBatches ==
    { <<NotAnInstance>>,
      <<Profile("k1", "a", <<"p">>), NotAnInstance>>,
      <<NotAnInstance, Profile("k2", "a", <<"p">>)>> }

NoObs == [op |-> "none"]

Init ==
    /\ storage = EmptyDict
    /\ lookups = EmptyDict
    /\ lookup_extractors = EmptyDict
    /\ index = NoIndex
    /\ strategy \in Strategies
    /\ history = EmptyDict
    /\ pc = "store"
    /\ call_items = <<>>
    /\ pre_storage = EmptyDict
    /\ batch_calls = 0
    /\ merge_log = <<>>
    /\ policy_fails = FALSE
    /\ obs = NoObs
    /\ disk = NoDisk

CallVars == <<pc, call_items, pre_storage, batch_calls, merge_log, policy_fails, obs,
              disk>>

Add(items) ==
    LET r == add(storage, lookups, lookup_extractors, index, strategy, items)
    IN  /\ pc = "store"
        /\ storage' = r.storage
        /\ lookups' = r.lookups
        /\ index' = r.index
        /\ history' = IF r.raised THEN history ELSE HistoryAfterAdd(history, strategy, items)
        /\ UNCHANGED <<lookup_extractors, strategy, CallVars>>

Remove(key) ==
    LET r == remove(storage, lookups, lookup_extractors, index, key)
    IN  /\ pc = "store"
        /\ storage' = r.storage
        /\ lookups' = r.lookups
        /\ index' = r.index
        /\ history' = Del(history, key)
        /\ UNCHANGED <<lookup_extractors, strategy, CallVars>>

Clear ==
    /\ pc = "store"
    /\ storage' = EmptyDict
    /\ index' = NoIndex
    /\ history' = EmptyDict
    /\ UNCHANGED <<lookups, lookup_extractors, strategy, CallVars>>

CreateLookup(name, ext) ==
    LET r == create_lookup(storage, lookups, lookup_extractors, name, ext)
    IN  /\ pc = "store"
        /\ lookups' = r.lookups
        /\ lookup_extractors' = r.lookup_extractors
        /\ UNCHANGED <<storage, index, strategy, history, CallVars>>

DropLookup(name) ==
    LET r == drop_lookup(lookups, lookup_extractors, name)
    IN  /\ pc = "store"
        /\ lookups' = r.lookups
        /\ lookup_extractors' = r.lookup_extractors
        /\ UNCHANGED <<storage, index, strategy, history, CallVars>>

BuildIndex(force) ==
    /\ pc = "store"
    /\ IF (~force /\ index.built) \/ DOMAIN storage = {}
       THEN UNCHANGED index
       ELSE index' = [built |-> TRUE, docs |-> storage]
    /\ UNCHANGED <<storage, lookups, lookup_extractors, strategy, history, CallVars>>

Next ==
    \/ \E items \in Batches \cup InvalidBatches : Add(items)
    \/ \E key \in StoreKeys : Remove(key)
    \/ Clear
    \/ \E name \in LookupNames : \E ext \in ExtractorsFor(name) : CreateLookup(name, ext)
    \/ \E name \in LookupNames : DropLookup(name)
    \/ \E force \in BOOLEAN : BuildIndex(force)

Spec == Init /\ [][Next]_vars

\* the same store driven without clear()
NextAddRemove ==
    \/ \E items \in Batches \cup InvalidBatches : Add(items)
    \/ \E key \in StoreKeys : Remove(key)
    \/ \E name \in LookupNames : \E ext \in ExtractorsFor(name) : CreateLookup(name, ext)
    \/ \E name \in LookupNames : DropLookup(name)
    \/ \E force \in BOOLEAN : BuildIndex(force)

SpecAddRemove == Init /\ [][NextAddRemove]_vars

\* ------------------------------------------------------------------------
\* A single add call on a drawn store: the store before the call, the
\* argument and the batches handed to batch_merge stay visible afterwards

\* the stores the call starts from: k1 holds any record of the schema, the
\* other keys a fragment of theirs (each reachable by a direct insert)
CallStores ==
    { st \in UNION {[D -> Records] : D \in SUBSET StoreKeys} :
        \A k \in DOMAIN st : /\ key_extractor(st[k]) = k
                             /\ (k # "k1" => st[k] \in Fragments) }

CallBatches == SeqsUpTo(Fragments, MaxCallBatch) \ {<<>>}

InitCall ==
    /\ storage \in CallStores
    /\ lookups = EmptyDict
    /\ lookup_extractors = EmptyDict
    /\ index = NoIndex
    /\ strategy \in Strategies
    /\ history = EmptyDict
    /\ pc = "call"
    /\ call_items \in CallBatches
    /\ pre_storage = storage
    /\ batch_calls = 0
    /\ merge_log = <<>>
    /\ policy_fails = FALSE
    /\ obs = NoObs
    /\ disk = NoDisk

AddCall ==
    LET r == add(storage, lookups, lookup_extractors, index, strategy, call_items)
    IN  /\ pc = "call"
        /\ pc' = IF r.raised THEN "raised" ELSE "done"
        /\ storage' = r.storage
        /\ lookups' = r.lookups
        /\ index' = r.index
        /\ batch_calls' = Len(r.log)
        /\ merge_log' = r.log
        /\ UNCHANGED <<lookup_extractors, strategy, history, call_items, pre_storage,
                       policy_fails, obs, disk>>

NextCall == AddCall

SpecCall == InitCall /\ [][NextCall]_vars

\* ------------------------------------------------------------------------
\* A single add call under any policy, the policy's merge step failing or not

MaxPolicyBatch == 3

\* the stores the call starts from: every key holds a fragment of its own
PolicyStores ==
    { st \in UNION {[D -> Fragments] : D \in SUBSET StoreKeys} :
        \A k \in DOMAIN st : key_extractor(st[k]) = k }

PolicyBatches == SeqsUpTo(Fragments, MaxPolicyBatch) \ {<<>>}

InitPolicy ==
    /\ storage \in PolicyStores
    /\ lookups = EmptyDict
    /\ lookup_extractors = EmptyDict
    /\ index = NoIndex
    /\ strategy \in Policies
    /\ history = EmptyDict
    /\ pc = "call"
    /\ call_items \in PolicyBatches
    /\ pre_storage = storage
    /\ batch_calls = 0
    /\ merge_log = <<>>
    /\ policy_fails \in BOOLEAN
    /\ policy_fails => CanFail(strategy)
    /\ obs = NoObs
    /\ disk = NoDisk

NextPolicy == AddCall

SpecPolicy == InitPolicy /\ [][NextPolicy]_vars

\* ------------------------------------------------------------------------
\* The store driven by any sequence of operations, then one observed call:
\* obs keeps the call, its outcome and the state it started from

Snapshot ==
    [storage |-> storage, lookups |-> lookups,
     lookup_extractors |-> lookup_extractors, index |-> index]

\* the add calls observed: one fragment, or an input with a foreign object
ObservedBatches == {b \in Batches : Len(b) = 1} \cup InvalidBatches

ObserveAdd(items) ==
    LET r == add(storage, lookups, lookup_extractors, index, strategy, items)
    IN  /\ pc = "store"
        /\ pc' = "done"
        /\ storage' = r.storage
        /\ lookups' = r.lookups
        /\ index' = r.index
        /\ history' = IF r.raised THEN history ELSE HistoryAfterAdd(history, strategy, items)
        /\ obs' = [op |-> "add", items |-> items, exc |-> r.exc, pre |-> Snapshot]
        /\ UNCHANGED <<lookup_extractors, strategy, call_items, pre_storage,
                       batch_calls, merge_log, policy_fails, disk>>

ObserveRemove(key) ==
    LET r == remove(storage, lookups, lookup_extractors, index, key)
    IN  /\ pc = "store"
        /\ pc' = "done"
        /\ storage' = r.storage
        /\ lookups' = r.lookups
        /\ index' = r.index
        /\ history' = Del(history, key)
        /\ obs' = [op |-> "remove", key |-> key, ret |-> r.ret, pre |-> Snapshot]
        /\ UNCHANGED <<lookup_extractors, strategy, call_items, pre_storage,
                       batch_calls, merge_log, policy_fails, disk>>

ObserveCreateLookup(name, ext) ==
    LET r == create_lookup(storage, lookups, lookup_extractors, name, ext)
    IN  /\ pc = "store"
        /\ pc' = "done"
        /\ lookups' = r.lookups
        /\ lookup_extractors' = r.lookup_extractors
        /\ obs' = [op |-> "create_lookup", name |-> name, ext |-> ext, exc |-> r.exc,
                   pre |-> Snapshot]
        /\ UNCHANGED <<storage, index, strategy, history, call_items, pre_storage,
                       batch_calls, merge_log, policy_fails, disk>>

\* an observed drop_lookup may be followed by one more observed call, the
\* registration of the same name
ObserveDropLookup(name) ==
    LET r == drop_lookup(lookups, lookup_extractors, name)
    IN  /\ pc = "store"
        /\ pc' = "dropped"
        /\ lookups' = r.lookups
        /\ lookup_extractors' = r.lookup_extractors
        /\ obs' = [op |-> "drop_lookup", name |-> name, ret |-> r.ret, pre |-> Snapshot]
        /\ UNCHANGED <<storage, index, strategy, history, call_items, pre_storage,
                       batch_calls, merge_log, policy_fails, disk>>

ObserveCreateAfterDrop(ext) ==
    LET r == create_lookup(storage, lookups, lookup_extractors, obs.name, ext)
    IN  /\ pc = "dropped"
        /\ obs.ret
        /\ ext \in ExtractorsFor(obs.name)
        /\ pc' = "done"
        /\ lookups' = r.lookups
        /\ lookup_extractors' = r.lookup_extractors
        /\ obs' = [op |-> "create_after_drop", name |-> obs.name, ext |-> ext,
                   exc |-> r.exc, pre |-> obs.pre]
        /\ UNCHANGED <<storage, index, strategy, history, call_items, pre_storage,
                       batch_calls, merge_log, policy_fails, disk>>

ObserveGetByLookup(name, q) ==
    LET r == get_by_lookup_any(storage, lookups, name, q)
    IN  /\ pc = "store"
        /\ pc' = "done"
        /\ obs' = [op |-> "get_by_lookup", name |-> name, q |-> q, exc |-> r.exc,
                   result |-> r.result, pre |-> Snapshot]
        /\ UNCHANGED <<storage, lookups, lookup_extractors, index, strategy, history,
                       call_items, pre_storage, batch_calls, merge_log, policy_fails, disk>>

NextObserve ==
    \/ \E items \in Batches \cup InvalidBatches : Add(items)
    \/ \E key \in StoreKeys : Remove(key)
    \/ Clear
    \/ \E name \in LookupNames : \E ext \in ExtractorsFor(name) : CreateLookup(name, ext)
    \/ \E name \in LookupNames : DropLookup(name)
    \/ \E force \in BOOLEAN : BuildIndex(force)
    \/ \E items \in ObservedBatches : ObserveAdd(items)
    \/ \E key \in StoreKeys : ObserveRemove(key)
    \/ \E name \in LookupNames : \E ext \in ExtractorsFor(name) : ObserveCreateLookup(name, ext)
    \/ \E name \in LookupNames : ObserveDropLookup(name)
    \/ \E ext \in Extractors : ObserveCreateAfterDrop(ext)
    \/ \E name \in LookupNames : \E q \in QueryValues : ObserveGetByLookup(name, q)

\* the store of the lookup tests: constructed with MergeStrategy.MERGE_FIELD
InitObserve == Init /\ strategy = "merge_field"

SpecObserve == InitObserve /\ [][NextObserve]_vars

\* ------------------------------------------------------------------------
\* The store with an embedder, dumped to and loaded from one folder, then one
\* observed call

PersistFragments ==
    { Profile("k1", "a", <<"p">>), Profile("k1", None, <<>>),
      Profile("k2", "b", <<"q">>), Profile(None, "a", <<>>) }

PersistBatches == {<<f>> : f \in PersistFragments}

PersistenceCalls ==
    {"dump_data", "dump_metadata", "dump_index", "load_data", "load_metadata", "load_index"}

\* the records a query gets back: the indexed documents whose key is not
\* None and is in the store, read from the store
search_results(st, idx) ==
    IF ~idx.built THEN {}
    ELSE {st[k] : k \in {x \in DOMAIN idx.docs : x # None /\ x \in DOMAIN st}}

\* OMem.search: build_index() when no index is present, then the query
search(st, idx) ==
    LET built == IF idx.built \/ DOMAIN st = {} THEN idx
                 ELSE [built |-> TRUE, docs |-> st]
    IN  [index |-> built, results |-> search_results(st, built)]

Search ==
    /\ pc = "store"
    /\ index' = search(storage, index).index
    /\ UNCHANGED <<storage, lookups, lookup_extractors, strategy, history, CallVars>>

Dump ==
    /\ pc = "store"
    /\ disk' = dump(disk, storage, index).disk
    /\ UNCHANGED <<storage, lookups, lookup_extractors, index, strategy, history,
                   pc, call_items, pre_storage, batch_calls, merge_log, policy_fails, obs>>

\* a new store is constructed; the folder stays
NewStore ==
    /\ pc = "store"
    /\ storage' = EmptyDict
    /\ lookups' = EmptyDict
    /\ lookup_extractors' = EmptyDict
    /\ index' = NoIndex
    /\ history' = EmptyDict
    /\ UNCHANGED <<strategy, CallVars>>

\* the store after a load that left r
LoadStep(r) ==
    /\ storage' = r.storage
    /\ lookups' = r.lookups
    /\ index' = r.index
    /\ history' = IF r.exc # "None" THEN history
                  ELSE HistoryAfterAdd(history, strategy, parse_items(disk.data))

Load ==
    /\ pc = "store"
    /\ LoadStep(load(disk, storage, lookups, lookup_extractors, index, strategy))
    /\ UNCHANGED <<lookup_extractors, strategy, CallVars>>

ObservedLoadStep(r) ==
    /\ LoadStep(r)
    /\ obs' = [op |-> "load", exc |-> r.exc, pre |-> Snapshot]

ObserveLoad ==
    /\ pc = "store"
    /\ pc' = "done"
    /\ ObservedLoadStep(load(disk, storage, lookups, lookup_extractors, index, strategy))
    /\ UNCHANGED <<lookup_extractors, strategy, call_items, pre_storage,
                   batch_calls, merge_log, policy_fails, disk>>

ObserveSearch ==
    LET r == search(storage, index)
    IN  /\ pc = "store"
        /\ pc' = "done"
        /\ index' = r.index
        /\ obs' = [op |-> "search", results |-> r.results, pre |-> Snapshot]
        /\ UNCHANGED <<storage, lookups, lookup_extractors, strategy, history,
                       call_items, pre_storage, batch_calls, merge_log, policy_fails, disk>>

\* one call of a fine-grained persistence operation in an environment where
\* opening its file or folder works or fails
PersistenceStep(call, fault, d, l) ==
    /\ disk' = d.disk
    /\ storage' = l.storage
    /\ lookups' = l.lookups
    /\ index' = l.index
    /\ obs' = [op |-> "persistence", call |-> call, fault |-> fault,
               exc |-> IF call \in {"dump_data", "dump_metadata", "dump_index"}
                       THEN d.exc ELSE l.exc,
               pre |-> Snapshot, pre_disk |-> disk]

ObservePersistence(call, fault) ==
    /\ pc = "store"
    /\ pc' = "done"
    /\ PersistenceStep(call, fault,
          CASE call = "dump_data"     -> dump_data(disk, storage, fault)
            [] call = "dump_metadata" -> dump_metadata(disk, storage, fault)
            [] call = "dump_index"    -> dump_index(disk, index, fault)
            [] OTHER                  -> [exc |-> "None", disk |-> disk],
          CASE call = "load_data" ->
                  load_data(disk, storage, lookups, lookup_extractors, index, strategy, fault)
            [] call = "load_metadata" -> load_metadata(disk, storage, lookups, index, fault)
            [] call = "load_index"    -> load_index(disk, storage, lookups, index, fault)
            [] OTHER                  -> Loaded("None", storage, lookups, index))
    /\ UNCHANGED <<lookup_extractors, strategy, history, call_items, pre_storage,
                   batch_calls, merge_log, policy_fails>>

NextPersist ==
    \/ \E items \in PersistBatches : Add(items)
    \/ \E key \in StoreKeys : Remove(key)
    \/ Clear
    \/ \E force \in BOOLEAN : BuildIndex(force)
    \/ Search
    \/ Dump
    \/ NewStore
    \/ Load
    \/ ObserveLoad
    \/ ObserveSearch
    \/ \E call \in PersistenceCalls : \E fault \in Faults : ObservePersistence(call, fault)

\* the store of the persistence tests: constructed with the field-merge policy
InitPersist == Init /\ strategy = "merge_field"

SpecPersist == InitPersist /\ [][NextPersist]_vars

\* ------------------------------------------------------------------------
\* One pair_merge call of a classic policy on two drawn records

InitPair ==
    /\ storage = EmptyDict
    /\ lookups = EmptyDict
    /\ lookup_extractors = EmptyDict
    /\ index = NoIndex
    /\ strategy \in Strategies
    /\ history = EmptyDict
    /\ pc = "pair"
    /\ call_items \in Records \X Records
    /\ pre_storage = EmptyDict
    /\ batch_calls = 0
    /\ merge_log = <<>>
    /\ policy_fails \in BOOLEAN
    /\ policy_fails => strategy = "merge_field"
    /\ obs = NoObs
    /\ disk = NoDisk

PairMerge ==
    /\ pc = "pair"
    /\ pc' = "done"
    /\ obs' = [op |-> "pair_merge", existing |-> call_items[1], incoming |-> call_items[2],
               result |-> pair_merge(strategy, call_items[1], call_items[2])]
    /\ UNCHANGED <<storage, lookups, lookup_extractors, index, strategy, history,
                   call_items, pre_storage, batch_calls, merge_log, policy_fails, disk>>

NextPair == PairMerge

SpecPair == InitPair /\ [][NextPair]_vars

\* ------------------------------------------------------------------------
\* One merge call of the engine on a drawn list of fragments

MaxMergeLen == 5

MergeInputs == SeqsUpTo(Fragments, MaxMergeLen)

InitMerge ==
    /\ storage = EmptyDict
    /\ lookups = EmptyDict
    /\ lookup_extractors = EmptyDict
    /\ index = NoIndex
    /\ strategy \in Strategies
    /\ history = EmptyDict
    /\ pc = "merge"
    /\ call_items \in MergeInputs
    /\ pre_storage = EmptyDict
    /\ batch_calls = 0
    /\ merge_log = <<>>
    /\ policy_fails = FALSE
    /\ obs = NoObs
    /\ disk = NoDisk

\* what a merge call that left r is seen to have done
MergeStep(r) ==
    /\ pc' = IF r.raised THEN "raised" ELSE "done"
    /\ batch_calls' = Len(r.log)
    /\ merge_log' = r.log
    /\ obs' = [op |-> "merge", items |-> r.items, exc |-> r.exc]

MergeCall ==
    /\ pc = "merge"
    /\ MergeStep(merge(strategy, call_items))
    /\ UNCHANGED <<storage, lookups, lookup_extractors, index, strategy, history,
                   call_items, pre_storage, policy_fails, disk>>

NextMerge == MergeCall

SpecMerge == InitMerge /\ [][NextMerge]_vars

\* ------------------------------------------------------------------------
\* A single add call that may fail for any reason, on a store with
\* registered lookups and possibly a built index: obs keeps the outcome and
\* the state the call started from

MaxAtomicBatch == 2

\* what a caller may hand to add: fragments, a foreign object, a record on
\* which the key extractor raises
AtomicItems == Fragments \cup {NotAnInstance, Unkeyable}

AtomicBatches == SeqsUpTo(AtomicItems, MaxAtomicBatch) \ {<<>>}

AtomicPolicies == Policies \cup BrokenPolicies

\* the store after create_lookup("by_name", ...), and after
\* create_lookup("by_skill", ...) as well
OneLookup(st) == create_lookup(st, EmptyDict, EmptyDict, "by_name", "name")
TwoLookups(st) ==
    create_lookup(st, OneLookup(st).lookups, OneLookup(st).lookup_extractors,
                  "by_skill", "first_skill")

InitAtomic ==
    /\ storage \in PolicyStores
    /\ \E r \in {OneLookup(storage), TwoLookups(storage)} :
          /\ lookups = r.lookups
          /\ lookup_extractors = r.lookup_extractors
    /\ index \in {NoIndex} \cup (IF storage = EmptyDict THEN {}
                                 ELSE {[built |-> TRUE, docs |-> storage]})
    /\ strategy \in AtomicPolicies
    /\ history = EmptyDict
    /\ pc = "call"
    /\ call_items \in AtomicBatches
    /\ pre_storage = storage
    /\ batch_calls = 0
    /\ merge_log = <<>>
    /\ policy_fails \in BOOLEAN
    /\ policy_fails => CanFail(strategy)
    /\ obs = NoObs
    /\ disk = NoDisk

AtomicAddStep(r) ==
    /\ pc = "call"
    /\ pc' = IF r.raised THEN "raised" ELSE "done"
    /\ storage' = r.storage
    /\ lookups' = r.lookups
    /\ index' = r.index
    /\ batch_calls' = Len(r.log)
    /\ merge_log' = r.log
    /\ obs' = [op |-> "add", items |-> call_items, exc |-> r.exc, pre |-> Snapshot]
    /\ UNCHANGED <<lookup_extractors, strategy, history, call_items, pre_storage,
                   policy_fails, disk>>

AtomicAdd ==
    AtomicAddStep(add(storage, lookups, lookup_extractors, index, strategy, call_items))

NextAtomic == AtomicAdd

SpecAtomic == InitAtomic /\ [][NextAtomic]_vars

\* ------------------------------------------------------------------------
\* The remote-reasoning policies (src/ontomem/merger/llm_merger/base.py):
\* one batch_merge call of a BaseLLMMerger on drawn pairs, the remote model
\* failing or not

MaxLLMPairs == 2

\* what the chain answers for a pair when the call succeeds: a schema instance
\* combining both items (the key of the existing item, the incoming name
\* unless it is null, the skills of both)
llm_answer(existing, incoming) ==
    [uid |-> existing.uid,
     name |-> IF incoming.name # None THEN incoming.name ELSE existing.name,
     skills |-> existing.skills \o incoming.skills]

\* BaseLLMMerger.pair_merge: the chain is built and invoked inside one try;
\* any exception returns the incoming item
LLM_pair_merge(existing, incoming, chain_ok, invoke_ok) ==
    IF chain_ok /\ invoke_ok THEN llm_answer(existing, incoming) ELSE incoming

\* mutant: the fallback keeps only the pairs whose individual call succeeded
RECURSIVE LLM_fallback_dropping_failed(_, _, _, _)
LLM_fallback_dropping_failed(pairs, i, chain_ok, invoke_fails) ==
    IF i > Len(pairs) THEN <<>>
    ELSE (IF chain_ok /\ i \notin invoke_fails
          THEN <<llm_answer(pairs[i][1], pairs[i][2])>> ELSE <<>>)
         \o LLM_fallback_dropping_failed(pairs, i + 1, chain_ok, invoke_fails)

\* the fallback loop of batch_merge over the pairs from position i on
RECURSIVE LLM_fallback(_, _, _, _)
LLM_fallback(pairs, i, chain_ok, invoke_fails) ==
    IF i > Len(pairs) THEN <<>>
    ELSE <<LLM_pair_merge(pairs[i][1], pairs[i][2], chain_ok, i \notin invoke_fails)>>
         \o LLM_fallback(pairs, i + 1, chain_ok, invoke_fails)

\* BaseLLMMerger.batch_merge: no pairs, no call; the chain is built before the
\* try, so a failure to build it leaves batch_merge; merge_chain.batch
\* answers every input in order or raises, and its exception starts the
\* fallback
LLM_batch_merge(pairs, chain_ok, batch_ok, invoke_fails) ==
    IF pairs = <<>> THEN [exc |-> "None", results |-> <<>>]
    ELSE IF ~chain_ok THEN [exc |-> "ChainError", results |-> <<>>]
    ELSE IF batch_ok
    THEN [exc |-> "None",
          results |-> [i \in 1..Len(pairs) |-> llm_answer(pairs[i][1], pairs[i][2])]]
    ELSE [exc |-> "None", results |-> LLM_fallback(pairs, 1, chain_ok, invoke_fails)]

\* the pairs a round hands over: two fragments of one non-null key
LLMPairs ==
    {<<a, b>> : a \in Fragments \ {Profile(None, "a", <<"p">>)},
                b \in Fragments \ {Profile(None, "a", <<"p">>)}}
    \cap {q \in Fragments \X Fragments : key_extractor(q[1]) = key_extractor(q[2])}

\* the remote model of one call: whether the chain can be built, whether the
\* batched call succeeds, and the pairs whose individual call fails
LLMSetups ==
    [op : {"llm_setup"}, chain_ok : BOOLEAN, batch_ok : BOOLEAN,
     invoke_fails : SUBSET (1..MaxLLMPairs)]

InitLLM ==
    /\ storage = EmptyDict
    /\ lookups = EmptyDict
    /\ lookup_extractors = EmptyDict
    /\ index = NoIndex
    /\ strategy = "llm"
    /\ history = EmptyDict
    /\ pc = "llm"
    /\ call_items \in SeqsUpTo(LLMPairs, MaxLLMPairs)
    /\ pre_storage = EmptyDict
    /\ batch_calls = 0
    /\ merge_log = <<>>
    /\ policy_fails = FALSE
    /\ obs \in LLMSetups
    /\ disk = NoDisk

LLMStep(r) ==
    /\ pc = "llm"
    /\ pc' = IF r.exc = "None" THEN "done" ELSE "raised"
    /\ obs' = [op |-> "llm_batch_merge", chain_ok |-> obs.chain_ok,
               batch_ok |-> obs.batch_ok, invoke_fails |-> obs.invoke_fails,
               exc |-> r.exc, results |-> r.results]
    /\ UNCHANGED <<storage, lookups, lookup_extractors, index, strategy, history,
                   call_items, pre_storage, batch_calls, merge_log, policy_fails, disk>>

LLMBatchMerge ==
    LLMStep(LLM_batch_merge(call_items, obs.chain_ok, obs.batch_ok, obs.invoke_fails))

NextLLM == LLMBatchMerge

SpecLLM == InitLLM /\ [][NextLLM]_vars

\* ------------------------------------------------------------------------
\* load_data into a store that is not empty: the file was written by
\* dump_data from one store, the store loading it holds records of its own,
\* registered lookups and possibly an index

\* the stores on either side: every key holds a fragment of its own, the
\* key None (a fragment without key, inserted directly) one of two records
ReloadStores ==
    { st \in UNION {[D -> Fragments \cup {Profile(None, "b", <<>>)}] : D \in SUBSET StoreKeys} :
        \A k \in DOMAIN st : key_extractor(st[k]) = k }

InitReload ==
    /\ storage \in ReloadStores
    /\ \E r \in {OneLookup(storage), TwoLookups(storage)} :
          /\ lookups = r.lookups
          /\ lookup_extractors = r.lookup_extractors
    /\ index \in {NoIndex} \cup (IF storage = EmptyDict THEN {}
                                 ELSE {[built |-> TRUE, docs |-> storage]})
    /\ strategy \in Strategies
    /\ history = EmptyDict
    /\ pc = "reload"
    /\ call_items = <<>>
    /\ pre_storage = storage
    /\ batch_calls = 0
    /\ merge_log = <<>>
    /\ policy_fails = FALSE
    /\ obs = NoObs
    /\ \E written \in ReloadStores : disk = dump_data(NoDisk, written, "none").disk

ReloadStep(r) ==
    /\ pc = "reload"
    /\ pc' = IF r.exc = "None" THEN "done" ELSE "raised"
    /\ storage' = r.storage
    /\ lookups' = r.lookups
    /\ index' = r.index
    /\ obs' = [op |-> "load_data", exc |-> r.exc, pre |-> Snapshot]
    /\ UNCHANGED <<lookup_extractors, strategy, history, call_items, pre_storage,
                   batch_calls, merge_log, policy_fails, disk>>

ReloadData ==
    ReloadStep(load_data(disk, storage, lookups, lookup_extractors, index, strategy, "none"))

NextReload == ReloadData

SpecReload == InitReload /\ [][NextReload]_vars

\* ------------------------------------------------------------------------
\* Two callers on one store: each makes one add or remove call, the calls
\* advancing statement by statement.  OMem takes no lock; obs.use_lock says
\* whether the callers wrap each call in a writer lock of their own, and
\* obs.holder who holds it.  obs.t keeps each caller's position and locals.

Callers == {1, 2}

\* the calls: add([fragment]) with a fragment of k1 or k2, or remove("k1")
CallerCalls ==
    {[kind |-> "add", item |-> x] : x \in Fragments \ {Profile(None, "a", <<"p">>)}}
    \cup {[kind |-> "remove", key |-> "k1"]}

\* the stores the callers find: empty, or k1 holding one of its fragments
RaceStores ==
    {st \in PolicyStores : DOMAIN st \subseteq {"k1"}}

\* a caller before its call
Idle(call) ==
    [pc |-> "start", call |-> call, to_insert |-> <<>>, to_merge |-> <<>>,
     old_map |-> EmptyDict, md |-> EmptyDict, read |-> <<>>]

InitRace ==
    /\ storage \in RaceStores
    /\ lookups = TwoLookups(storage).lookups
    /\ lookup_extractors = TwoLookups(storage).lookup_extractors
    /\ index \in {NoIndex} \cup (IF storage = EmptyDict THEN {}
                                 ELSE {[built |-> TRUE, docs |-> storage]})
    /\ strategy \in Strategies
    /\ history = EmptyDict
    /\ pc = "callers"
    /\ call_items = <<>>
    /\ pre_storage = storage
    /\ batch_calls = 0
    /\ merge_log = <<>>
    /\ policy_fails = FALSE
    /\ \E lock \in BOOLEAN : \E c1 \in CallerCalls : \E c2 \in CallerCalls :
          obs = [op |-> "callers", use_lock |-> lock, holder |-> 0, pre |-> Snapshot,
                 t |-> [c \in Callers |-> Idle(IF c = 1 THEN c1 ELSE c2)]]
    /\ disk = NoDisk

\* a call may begin when the callers use no lock or the lock is free
may_enter(c) == ~obs.use_lock \/ obs.holder = 0

\* the lock's holder once caller c has begun, and once it has returned
Held(c) == IF obs.use_lock THEN c ELSE obs.holder
Released(c) == IF obs.use_lock THEN 0 ELSE obs.holder

SetCaller(c, loc, h) == [obs EXCEPT !.t[c] = loc, !.holder = h]

RaceUnchanged == <<lookup_extractors, strategy, history, pc, call_items, pre_storage,
                   batch_calls, merge_log, policy_fails, disk>>

\* add, the partition: the key is looked up in the store and the stored
\* record, if any, is read into to_merge
AddPartition(c) ==
    /\ obs.t[c].pc = "start" /\ obs.t[c].call.kind = "add"
    /\ may_enter(c)
    /\ obs' = SetCaller(c,
                 [obs.t[c] EXCEPT
                     !.to_insert = to_insert(storage, <<obs.t[c].call.item>>),
                     !.to_merge = to_merge(storage, <<obs.t[c].call.item>>),
                     !.pc = IF to_merge(storage, <<obs.t[c].call.item>>) # <<>>
                            THEN "snapshot" ELSE "insert"],
                 Held(c))
    /\ UNCHANGED <<storage, lookups, index, RaceUnchanged>>

\* add, old_items_map read from the store as it is now, then the merge
AfterMerge(c, old_map, m) ==
    obs' = IF m.raised
           THEN SetCaller(c, [obs.t[c] EXCEPT !.pc = "raised"], Released(c))
           ELSE SetCaller(c, [obs.t[c] EXCEPT !.pc = "write", !.old_map = old_map,
                                              !.md = merged_dict(m.items)],
                          obs.holder)

AddSnapshot(c) ==
    /\ obs.t[c].pc = "snapshot"
    /\ AfterMerge(c, old_items_map(storage, obs.t[c].to_merge),
                  merge(strategy, obs.t[c].to_merge))
    /\ UNCHANGED <<storage, lookups, index, RaceUnchanged>>

\* add, self._storage.update(merged_dict)
AddWrite(c) ==
    /\ obs.t[c].pc = "write"
    /\ storage' = dict_update(storage, obs.t[c].md)
    /\ obs' = SetCaller(c, [obs.t[c] EXCEPT !.pc = "lookups"], obs.holder)
    /\ UNCHANGED <<lookups, index, RaceUnchanged>>

\* add, the lookup updates of the merged keys
AddLookups(c) ==
    /\ obs.t[c].pc = "lookups"
    /\ lookups' = UpdateMerged(lookups, lookup_extractors, obs.t[c].md,
                               obs.t[c].old_map, DOMAIN obs.t[c].md)
    /\ obs' = SetCaller(c, [obs.t[c] EXCEPT !.pc = "index"], obs.holder)
    /\ UNCHANGED <<storage, index, RaceUnchanged>>

\* add, the direct insert: the store first, then the lookups
AddInsert(c) ==
    /\ obs.t[c].pc = "insert"
    /\ storage' = Put(storage, key_extractor(obs.t[c].to_insert[1]), obs.t[c].to_insert[1])
    /\ obs' = SetCaller(c, [obs.t[c] EXCEPT !.pc = "insert_lookups"], obs.holder)
    /\ UNCHANGED <<lookups, index, RaceUnchanged>>

AddInsertLookups(c) ==
    /\ obs.t[c].pc = "insert_lookups"
    /\ lookups' = update_all_lookups(lookups, lookup_extractors,
                                     key_extractor(obs.t[c].to_insert[1]),
                                     obs.t[c].to_insert[1], <<>>)
    /\ obs' = SetCaller(c, [obs.t[c] EXCEPT !.pc = "index"], obs.holder)
    /\ UNCHANGED <<storage, index, RaceUnchanged>>

\* add and remove, the end: the index is dropped and the call returns
ClearIndex(c) ==
    /\ obs.t[c].pc = "index"
    /\ index' = NoIndex
    /\ obs' = SetCaller(c, [obs.t[c] EXCEPT !.pc = "done"], Released(c))
    /\ UNCHANGED <<storage, lookups, RaceUnchanged>>

\* remove, the test and the read of the stored item
RemoveCheck(c) ==
    /\ obs.t[c].pc = "start" /\ obs.t[c].call.kind = "remove"
    /\ may_enter(c)
    /\ obs' = IF obs.t[c].call.key \in DOMAIN storage
              THEN SetCaller(c, [obs.t[c] EXCEPT !.pc = "rm_lookups",
                                                 !.read = <<storage[obs.t[c].call.key]>>],
                             Held(c))
              ELSE SetCaller(c, [obs.t[c] EXCEPT !.pc = "done"], obs.holder)
    /\ UNCHANGED <<storage, lookups, index, RaceUnchanged>>

\* remove, the lookups are purged with the item read
RemoveLookups(c) ==
    /\ obs.t[c].pc = "rm_lookups"
    /\ lookups' = RemoveFromLookupsOver(lookups, lookup_extractors, DOMAIN lookups,
                                        obs.t[c].call.key, obs.t[c].read[1])
    /\ obs' = SetCaller(c, [obs.t[c] EXCEPT !.pc = "rm_delete"], obs.holder)
    /\ UNCHANGED <<storage, index, RaceUnchanged>>

\* remove, del self._storage[key]: KeyError when the key has gone meanwhile
RemoveDelete(c) ==
    /\ obs.t[c].pc = "rm_delete"
    /\ IF obs.t[c].call.key \in DOMAIN storage
       THEN /\ storage' = Del(storage, obs.t[c].call.key)
            /\ obs' = SetCaller(c, [obs.t[c] EXCEPT !.pc = "index"], obs.holder)
       ELSE /\ storage' = storage
            /\ obs' = SetCaller(c, [obs.t[c] EXCEPT !.pc = "raised"], Released(c))
    /\ UNCHANGED <<lookups, index, RaceUnchanged>>

NextRace ==
    \/ \E c \in Callers : AddPartition(c)
    \/ \E c \in Callers : AddSnapshot(c)
    \/ \E c \in Callers : AddWrite(c)
    \/ \E c \in Callers : AddLookups(c)
    \/ \E c \in Callers : AddInsert(c)
    \/ \E c \in Callers : AddInsertLookups(c)
    \/ \E c \in Callers : ClearIndex(c)
    \/ \E c \in Callers : RemoveCheck(c)
    \/ \E c \in Callers : RemoveLookups(c)
    \/ \E c \in Callers : RemoveDelete(c)

SpecRace == InitRace /\ [][NextRace]_vars

\* ------------------------------------------------------------------------
\* Properties

LookupValues == Names \cup {"p", "q"}

\* the keys of the store whose record's extractor value under the lookup is v
KeysWithValue(name, v) ==
    {k \in DOMAIN storage :
        LET r == call_extractor(lookup_extractors[name], storage[k])
        IN  r.tag = "value" /\ r.val = v}

\* C1: get_by_lookup(name, v) on a registered lookup returns exactly the
\* stored records whose extractor value is v, after any sequence of add,
\* remove, clear, create_lookup and drop_lookup calls.
C1_GetByLookupExact ==
    \A name \in DOMAIN lookups : \A v \in LookupValues :
        get_by_lookup(storage, lookups, name, v) = {storage[k] : k \in KeysWithValue(name, v)}

\* C2: for every registered lookup L and every stored key K whose record
\* yields a non-null hashable value v, K is a member of bucket L[v].
C2_StoredKeyInItsBucket ==
    \A name \in DOMAIN lookups : \A v \in LookupValues : \A k \in KeysWithValue(name, v) :
        v \in DOMAIN lookups[name] /\ k \in lookups[name][v]

\* two stored keys share a bucket after a clear() left the lookup registered
\* (k1 is still in the bucket of its name before the clear) and the store
\* was filled again
C2_Witness ==
    /\ "by_name" \in DOMAIN lookups
    /\ {"k1", "k2"} \subseteq DOMAIN storage
    /\ "a" \in DOMAIN lookups["by_name"]
    /\ lookups["by_name"]["a"] = {"k1", "k2"}
    /\ "b" \in DOMAIN lookups["by_name"]
    /\ "k1" \in lookups["by_name"]["b"]
    /\ "by_skill" \in DOMAIN lookups
    /\ lookup_extractors["by_skill"] = "first_skill"
    /\ storage["k1"].skills = <<"q">>
    /\ "q" \in DOMAIN lookups["by_skill"]

\* C3: without clear(), no lookup holds a stale entry: every key of every
\* bucket L[v] is stored and its record's extractor value is v.
C3_NoStaleEntry ==
    \A name \in DOMAIN lookups : \A v \in DOMAIN lookups[name] :
        lookups[name][v] = KeysWithValue(name, v)

\* FieldMerge moved k1 from p to q (the record is reachable by a merge
\* only), k2 stays in p, and a removed key has left its buckets
C3_Witness ==
    /\ strategy = "merge_field"
    /\ "by_skill" \in DOMAIN lookups
    /\ lookup_extractors["by_skill"] = "first_skill"
    /\ "k1" \in DOMAIN storage
    /\ storage["k1"] = Profile("k1", "a", <<"q">>)
    /\ DOMAIN lookups["by_skill"] = {"p", "q"}
    /\ lookups["by_skill"]["q"] = {"k1"}
    /\ lookups["by_skill"]["p"] = {"k2"}

\* C6: size equals the number of distinct keys added and not removed since
\* their most recent add, and equals the length of keys and of items.
OMem_size == Cardinality(DOMAIN storage)
OMem_keys == DOMAIN storage
OMem_items == [k \in DOMAIN storage |-> storage[k]]

C6_SizeCountsLiveKeys ==
    /\ OMem_size = Cardinality(DOMAIN history)
    /\ OMem_size = Cardinality(OMem_keys)
    /\ OMem_size = Cardinality(DOMAIN OMem_items)

\* --- the single add call -------------------------------------------------

\* the non-null keys of the call's fragments, and each key's group: the
\* record stored before the call, if any, then its fragments in order
CallKeys == {key_extractor(call_items[i]) : i \in 1..Len(call_items)} \ {None}
Group(k) ==
    (IF k \in DOMAIN pre_storage THEN <<pre_storage[k]>> ELSE <<>>) \o FragmentsOf(call_items, k)
MergedKeys == {k \in CallKeys : Len(Group(k)) >= 2}

\* the store after add(f1); ...; add(fn), one fragment per call
RECURSIVE OneByOne(_, _, _, _)
OneByOne(st, s, frags, i) ==
    IF i > Len(frags) THEN st
    ELSE OneByOne(add(st, EmptyDict, EmptyDict, NoIndex, s, <<frags[i]>>).storage, s, frags, i + 1)

\* C4: under the three classic policies the record stored for a key after
\* an add equals the left fold of pair_merge over the key's group in
\* submission order, and one batched call leaves the records that the
\* fragments added one call at a time leave.
C4_StoredIsLeftFold ==
    pc = "done" =>
        /\ \A k \in CallKeys :
              /\ k \in DOMAIN storage
              /\ storage[k] = FoldLeft(strategy, Group(k)[1], Group(k), 2)
        /\ LET seq == OneByOne(pre_storage, strategy, call_items, 1)
           IN  \A k \in Keys :
                 /\ k \in DOMAIN storage <=> k \in DOMAIN seq
                 /\ k \in DOMAIN storage => storage[k] = seq[k]

\* a stored record and three differing fragments of its key in one call,
\* merged by FieldMerge in two rounds as (e, f1), (f2, f3)
C4_Witness ==
    /\ pc = "done"
    /\ strategy = "merge_field"
    /\ "k1" \in DOMAIN pre_storage
    /\ Len(FragmentsOf(call_items, "k1")) = 3
    /\ call_items[1] # call_items[2]
    /\ call_items[3].name = None
    /\ batch_calls = 2
    /\ storage["k1"] # pre_storage["k1"]
    /\ storage["k1"] # call_items[3]

\* the least r with 2^r >= n
CeilLog2(n) == CHOOSE r \in 0..n : 2 ^ r >= n /\ (r = 0 \/ 2 ^ (r - 1) < n)
SetMax(S) == CHOOSE x \in S : \A y \in S : y <= x
RECURSIVE SetSum(_)
SetSum(S) == IF S = {} THEN 0 ELSE LET x == CHOOSE y \in S : TRUE IN x[2] + SetSum(S \ {x})

MaxGroupSize == SetMax({1} \cup {Len(Group(k)) : k \in MergedKeys})
SumOfRounds == SetSum({<<k, CeilLog2(Len(Group(k)))>> : k \in MergedKeys})

\* C5: one add call issues exactly ceil(log2(max_i n_i)) batch_merge calls
\* over the group sizes n_i of its merged keys (none when no key is merged).
C5_BatchCallCount ==
    pc = "done" => batch_calls = CeilLog2(MaxGroupSize)

\* two merged keys, of group sizes 4 and 2: two calls, not three
C5_Witness ==
    /\ pc = "done"
    /\ Cardinality(MergedKeys) = 2
    /\ MaxGroupSize = 4
    /\ batch_calls = 2
    /\ SumOfRounds = 3

\* every pair_merge invocation of the call: existing, incoming, merged
Merges ==
    UNION {{[existing |-> merge_log[r].pairs[i][1],
             incoming |-> merge_log[r].pairs[i][2],
             merged |-> merge_log[r].results[i]] : i \in 1..Len(merge_log[r].pairs)} :
           r \in 1..Len(merge_log)}

IsEmpty(item, f) == f = "skills" /\ item[f] = <<>>

Elems(q) == {q[i] : i \in 1..Len(q)}

C9_KeepIncomingStoresLast ==
    (pc = "done" /\ strategy = "keep_incoming") =>
        \A k \in CallKeys :
            /\ k \in DOMAIN storage
            /\ storage[k] = FragmentsOf(call_items, k)[Len(FragmentsOf(call_items, k))]
            /\ Cardinality({j \in DOMAIN storage : key_extractor(storage[j]) = k}) = 1

\* three differing fragments of a stored key in one call
C9_Witness ==
    /\ pc = "done"
    /\ strategy = "keep_incoming"
    /\ "k1" \in DOMAIN pre_storage
    /\ Len(call_items) = 3
    /\ \A i \in 1..3 : key_extractor(call_items[i]) = "k1"
    /\ call_items[1] # call_items[3]
    /\ call_items[2] # call_items[3]
    /\ pre_storage["k1"] # call_items[3]
    /\ storage["k1"] = call_items[3]

\* C10: under KeepExisting a stored key keeps its record through every add,
\* and a key first stored by the call holds the first fragment submitted.
C10_KeepExistingStoresFirst ==
    (pc = "done" /\ strategy = "keep_existing") =>
        \A k \in Keys :
            /\ k \in DOMAIN pre_storage => (k \in DOMAIN storage /\ storage[k] = pre_storage[k])
            /\ (k \in CallKeys /\ k \notin DOMAIN pre_storage) =>
                   (k \in DOMAIN storage /\ storage[k] = FragmentsOf(call_items, k)[1])

C10_Witness ==
    /\ pc = "done"
    /\ strategy = "keep_existing"
    /\ "k1" \in DOMAIN pre_storage
    /\ Len(FragmentsOf(call_items, "k1")) >= 2
    /\ \A i \in 1..Len(call_items) : call_items[i] # pre_storage["k1"]
    /\ "k2" \notin DOMAIN pre_storage
    /\ "k2" \in DOMAIN storage

\* C12: when the merge policy fails while merging a pair during add, add
\* returns normally and every affected pair resolves to its incoming
\* fragment, whatever policy the store was constructed with.
C12_PolicyFailureStaysInsideAdd ==
    (pc # "call" /\ policy_fails /\ MergedKeys # {}) =>
        /\ pc = "done"
        /\ Merges # {}
        /\ \A m \in Merges : m.merged = m.incoming

\* the call's fragments that carry a key
KeyedItems == SelectSeq(call_items, LAMBDA it : key_extractor(it) # None)

\* C13: a fragment whose key is null is dropped by add: the call does not
\* raise, it creates no store entry for the fragment, and the other
\* fragments of the call are inserted or merged as if it had not been there.
C13_NullKeyFragmentDropped ==
    (pc # "call" /\ KeyedItems # call_items) =>
        /\ pc = "done"
        /\ None \in DOMAIN storage => None \in DOMAIN pre_storage
        /\ LET alone == add(pre_storage, EmptyDict, EmptyDict, NoIndex, strategy, KeyedItems)
           IN  \A k \in Keys :
                 /\ k \in DOMAIN storage <=> k \in DOMAIN alone.storage
                 /\ k \in DOMAIN storage => storage[k] = alone.storage[k]

\* ------------------------------------------------------------------------
\* Properties of one observed call (SpecObserve)

Observed(op) == pc \in {"done", "dropped"} /\ obs.op = op

\* the store, the lookups, their extractors and the index are as before the
\* observed call
StateAsBefore ==
    /\ storage = obs.pre.storage
    /\ lookups = obs.pre.lookups
    /\ lookup_extractors = obs.pre.lookup_extractors
    /\ index = obs.pre.index

\* C11: an add whose input holds an object that is not a schema instance
\* raises TypeError and leaves the store, every lookup and the vector index
\* exactly as before the call, also when valid elements precede the object.
C11_TypeErrorBeforeAnyMutation ==
    (Observed("add") /\ \E i \in 1..Len(obs.items) : ~isinstance(obs.items[i])) =>
        (obs.exc = "TypeError" /\ StateAsBefore)

\* a valid fragment of a key that is not stored precedes the foreign object,
\* while a lookup holds a bucket and the index is built
C11_Witness ==
    /\ Observed("add")
    /\ Len(obs.items) = 2
    /\ isinstance(obs.items[1])
    /\ ~isinstance(obs.items[2])
    /\ key_extractor(obs.items[1]) \notin DOMAIN obs.pre.storage
    /\ obs.pre.storage # EmptyDict
    /\ obs.pre.index.built
    /\ \E name \in DOMAIN obs.pre.lookups : obs.pre.lookups[name] # EmptyDict
    /\ obs.exc = "TypeError"

\* C14: remove(K) of a stored key returns true, takes K out of its bucket in
\* every registered lookup, the bucket being the one computed from the
\* record about to be deleted, and deletes the store entry: afterwards get(K)
\* is none and no get_by_lookup result holds K's record.
C14_RemovePurgesKey ==
    (Observed("remove") /\ obs.key \in DOMAIN obs.pre.storage) =>
        /\ obs.ret
        /\ obs.key \notin DOMAIN storage
        /\ DOMAIN lookups = DOMAIN obs.pre.lookups
        /\ \A name \in DOMAIN lookups :
               LET r == call_extractor(lookup_extractors[name], obs.pre.storage[obs.key])
               IN  (r.tag = "value" /\ r.val \in DOMAIN lookups[name]) =>
                       obs.key \notin lookups[name][r.val]
        /\ \A name \in DOMAIN lookups : \A v \in LookupValues :
               obs.pre.storage[obs.key] \notin get_by_lookup(storage, lookups, name, v)

\* the removed key was in a bucket of two lookups, one of them shared with
\* another key
C14_Witness ==
    /\ Observed("remove")
    /\ obs.key = "k1"
    /\ obs.ret
    /\ DOMAIN obs.pre.lookups = LookupNames
    /\ \A name \in LookupNames : \E v \in DOMAIN obs.pre.lookups[name] :
           "k1" \in obs.pre.lookups[name][v]
    /\ \E v \in DOMAIN obs.pre.lookups["by_name"] :
           {"k1", "k2"} \subseteq obs.pre.lookups["by_name"][v]
    /\ "k1" \notin DOMAIN storage

\* C15: remove(K) of a key that is not stored returns false and changes
\* nothing: the store, every lookup's buckets and the vector index stay.
C15_RemoveAbsentChangesNothing ==
    (Observed("remove") /\ obs.key \notin DOMAIN obs.pre.storage) =>
        (~obs.ret /\ StateAsBefore)

\* the absent key is removed from a store that holds another key, with a
\* lookup bucket in place and the index built
C15_Witness ==
    /\ Observed("remove")
    /\ obs.key = "k2"
    /\ ~obs.ret
    /\ "k1" \in DOMAIN obs.pre.storage
    /\ obs.pre.index.built
    /\ \E name \in DOMAIN obs.pre.lookups : obs.pre.lookups[name] # EmptyDict

\* every key outside ks has the stored record and the bucket memberships it
\* had before the observed call
OtherKeysUntouched(ks) ==
    \A k \in StoreKeys \ ks :
        /\ k \in DOMAIN storage <=> k \in DOMAIN obs.pre.storage
        /\ k \in DOMAIN storage => storage[k] = obs.pre.storage[k]
        /\ DOMAIN lookups = DOMAIN obs.pre.lookups
        /\ \A name \in DOMAIN lookups : \A v \in LookupValues :
               (v \in DOMAIN lookups[name] /\ k \in lookups[name][v])
                   <=> (v \in DOMAIN obs.pre.lookups[name] /\ k \in obs.pre.lookups[name][v])

\* C16: an add that inserts or merges key K, and a remove of key K, leave
\* every other key's stored record and every other key's membership of
\* every bucket of every lookup unchanged.
C16_OtherKeysUntouched ==
    /\ Observed("remove") => OtherKeysUntouched({obs.key})
    /\ (Observed("add") /\ obs.exc = "None") =>
           OtherKeysUntouched({key_extractor(obs.items[i]) : i \in 1..Len(obs.items)})

\* k1 shared a bucket with k2 and left it by a merge; k2 is still in it
C16_Witness ==
    /\ Observed("add")
    /\ obs.exc = "None"
    /\ key_extractor(obs.items[1]) = "k1"
    /\ "by_name" \in DOMAIN obs.pre.lookups
    /\ "a" \in DOMAIN obs.pre.lookups["by_name"]
    /\ obs.pre.lookups["by_name"]["a"] = {"k1", "k2"}
    /\ {"k1", "k2"} \subseteq DOMAIN obs.pre.storage
    /\ "a" \in DOMAIN lookups["by_name"]
    /\ lookups["by_name"]["a"] = {"k2"}
    /\ storage["k1"] # obs.pre.storage["k1"]

\* C17: create_lookup with a name that is registered raises ValueError and
\* leaves that lookup's extractor and buckets, the other lookups and the
\* store unchanged.
C17_DuplicateLookupRejected ==
    (Observed("create_lookup") /\ obs.name \in DOMAIN obs.pre.lookups) =>
        (obs.exc = "ValueError" /\ StateAsBefore)

\* the name is registered with another extractor and holds a bucket, and a
\* second lookup is registered
C17_Witness ==
    /\ Observed("create_lookup")
    /\ obs.name = "by_skill"
    /\ DOMAIN obs.pre.lookups = LookupNames
    /\ obs.pre.lookup_extractors["by_skill"] # obs.ext
    /\ obs.pre.lookups["by_skill"] # EmptyDict
    /\ obs.pre.lookups["by_name"] # EmptyDict
    /\ obs.exc = "ValueError"

\* the bucket of value v in a lookup, empty when the lookup has none
Bucket(name, v) == IF v \in DOMAIN lookups[name] THEN lookups[name][v] ELSE {}

\* C18: create_lookup with a new name on a non-empty store back-fills the
\* lookup with every stored record whose extractor yields a non-null
\* hashable value, and skips the records whose extractor raises, returns
\* null or yields a value that is not hashable, without failing.
C18_BackfillSkipsFailures ==
    (Observed("create_lookup") /\ obs.name \notin DOMAIN obs.pre.lookups) =>
        /\ obs.exc = "None"
        /\ obs.name \in DOMAIN lookups
        /\ lookup_extractors[obs.name] = obs.ext
        /\ DOMAIN lookups[obs.name] \subseteq LookupValues
        /\ \A v \in LookupValues : Bucket(obs.name, v) = KeysWithValue(obs.name, v)
        /\ storage = obs.pre.storage

\* the store holds a record whose extractor raises and one it indexes
C18_Witness ==
    /\ Observed("create_lookup")
    /\ obs.name = "by_skill"
    /\ obs.ext = "first_skill"
    /\ "by_skill" \notin DOMAIN obs.pre.lookups
    /\ {"k1", "k2"} \subseteq DOMAIN storage
    /\ call_extractor("first_skill", storage["k1"]).tag = "raise"
    /\ lookups["by_skill"] = [v \in {"p"} |-> {"k2"}]

\* C19: get_by_lookup returns an empty list and does not raise when the
\* lookup name is not registered or the queried value has no bucket,
\* whatever the queried value is, and it changes no state.
C19_UnknownLookupOrValueIsEmpty ==
    (Observed("get_by_lookup")
        /\ (\/ obs.name \notin DOMAIN obs.pre.lookups
            \/ obs.q.tag # "value"
            \/ obs.q.val \notin DOMAIN obs.pre.lookups[obs.name])) =>
        (obs.exc = "None" /\ obs.result = {} /\ StateAsBefore)

\* every lookup but the named one is registered as before the observed call,
\* with the same extractor and buckets
OtherLookupsUntouched(name) ==
    /\ DOMAIN lookups \ {name} = DOMAIN obs.pre.lookups \ {name}
    /\ \A n \in DOMAIN lookups \ {name} :
           /\ lookups[n] = obs.pre.lookups[n]
           /\ lookup_extractors[n] = obs.pre.lookup_extractors[n]

\* C20: drop_lookup(name) returns true and unregisters the lookup when it is
\* registered and returns false otherwise, the store and every other lookup
\* staying as they were; the name can be registered again, and the new
\* lookup is back-filled from the current store only.
C20_DropLookup ==
    /\ Observed("drop_lookup") =>
           /\ obs.ret <=> obs.name \in DOMAIN obs.pre.lookups
           /\ obs.name \notin DOMAIN lookups
           /\ obs.name \notin DOMAIN lookup_extractors
           /\ OtherLookupsUntouched(obs.name)
           /\ storage = obs.pre.storage
           /\ index = obs.pre.index
    /\ Observed("create_after_drop") =>
           /\ obs.exc = "None"
           /\ obs.name \in DOMAIN lookups
           /\ lookup_extractors[obs.name] = obs.ext
           /\ DOMAIN lookups[obs.name] \subseteq LookupValues
           /\ \A v \in LookupValues : Bucket(obs.name, v) = KeysWithValue(obs.name, v)
           /\ OtherLookupsUntouched(obs.name)
           /\ storage = obs.pre.storage

\* the dropped lookup held a bucket that the store no longer backs; the
\* lookup registered again under the same name and extractor does not
C20_Witness ==
    /\ Observed("create_after_drop")
    /\ DOMAIN obs.pre.lookups = LookupNames
    /\ obs.pre.lookup_extractors[obs.name] = obs.ext
    /\ storage # EmptyDict
    /\ lookups[obs.name] # EmptyDict
    /\ \E v \in DOMAIN obs.pre.lookups[obs.name] : v \notin DOMAIN lookups[obs.name]

\* ------------------------------------------------------------------------
\* Properties of persistence (SpecPersist)

\* the observed call started on a store as constructed: no record, no index
FreshBefore == obs.pre.storage = EmptyDict /\ ~obs.pre.index.built

\* C21: a load into a fresh store, from a folder a store was dumped to,
\* raises nothing and leaves the key set of that store and, per key, a record
\* equal to the one dumped; the store meant is the one of the last dump to
\* the folder, whatever earlier dumps wrote.
C21_DumpLoadRoundTrip ==
    (Observed("load") /\ FreshBefore /\ disk.has_data) =>
        /\ obs.exc = "None"
        /\ DOMAIN storage = DOMAIN disk.source
        /\ \A k \in DOMAIN storage : storage[k] = disk.source[k]

\* a fresh store loaded from a folder written twice, getting back two
\* records, one of them with a null field
C21_Witness ==
    /\ Observed("load") /\ FreshBefore /\ disk.dumps = 2
    /\ Cardinality(DOMAIN storage) >= 2
    /\ \E k \in DOMAIN storage : storage[k].name = None

\* ------------------------------------------------------------------------
\* Properties of one pair_merge call (SpecPair)

\* C22: under KeepExisting, KeepIncoming and FieldMerge, pair_merge of a
\* record with an equal record returns that record, null fields, a null key
\* and an empty list included.
C22_PairMergeIdempotent ==
    (Observed("pair_merge") /\ obs.existing = obs.incoming) => obs.result = obs.existing

\* FieldMerge has merged a record with itself whose name is null and whose
\* list is not empty
C22_Witness ==
    /\ Observed("pair_merge") /\ strategy = "merge_field" /\ ~policy_fails
    /\ obs.existing = obs.incoming
    /\ obs.existing.name = None /\ obs.existing.skills # <<>>
    /\ obs.result = obs.existing

\* ------------------------------------------------------------------------
\* Properties of the routing of add and of the tournament (SpecCall)

\* every key carried by a fragment of the call, None included
AllCallKeys == {key_extractor(call_items[i]) : i \in 1..Len(call_items)}

\* the keys add inserts directly: not stored before, one fragment in the call
DirectKeys ==
    {k \in AllCallKeys : k \notin DOMAIN pre_storage /\ Len(FragmentsOf(call_items, k)) = 1}

\* the number of pairs of key k the policy was handed during the call
PairCount(k) ==
    SetSum({<<r, Cardinality({i \in 1..Len(merge_log[r].pairs) :
                                 key_extractor(merge_log[r].pairs[i][1]) = k
                                 \/ key_extractor(merge_log[r].pairs[i][2]) = k})>> :
            r \in 1..Len(merge_log)})

\* C23: in an add that returns, a key not stored before with one fragment in
\* the call is inserted directly: the policy is handed no pair of that key and
\* the stored record is the fragment; every other key of the call (stored
\* before, or with two or more fragments) goes through the merge engine,
\* which merges its group in group size minus one pairs.
C23_SingleNewKeyBypassesPolicy ==
    pc = "done" =>
        /\ \A k \in DirectKeys :
              /\ PairCount(k) = 0
              /\ k \in DOMAIN storage
              /\ storage[k] = FragmentsOf(call_items, k)[1]
        /\ \A k \in CallKeys \ DirectKeys :
              /\ Len(Group(k)) >= 2
              /\ PairCount(k) = Len(Group(k)) - 1

\* one call with a new single-fragment key and a stored key with one
\* fragment: one pair, one batch_merge call
C23_Witness ==
    /\ pc = "done"
    /\ \E k \in DirectKeys : k # None
    /\ \E k \in CallKeys \ DirectKeys : k \in DOMAIN pre_storage /\ PairCount(k) = 1
    /\ batch_calls = 1

\* ------------------------------------------------------------------------
\* Properties of the index and of the persistence calls (SpecPersist)

\* C24: an index that is present was built from exactly the records now in
\* the store, after any sequence of add, remove, clear, build_index, search
\* and load calls; a search on a store without an index leaves an index
\* built from the whole store.
C24_IndexCoversStore ==
    /\ index.built => index.docs = storage
    /\ (Observed("search") /\ ~obs.pre.index.built /\ obs.pre.storage # EmptyDict) =>
           index = [built |-> TRUE, docs |-> storage]

\* the observed persistence call met a failure: its target could not be
\* written, or its source was missing or could not be read
PersistenceFailed ==
    CASE obs.call = "dump_data"     -> obs.fault = "io"
      [] obs.call = "dump_metadata" -> obs.fault = "io"
      [] obs.call = "dump_index"    -> obs.pre.index.built /\ obs.fault = "io"
      [] obs.call = "load_data"     -> ~obs.pre_disk.has_data \/ obs.fault = "io"
      [] obs.call = "load_metadata" -> ~obs.pre_disk.has_meta \/ obs.fault = "io"
      [] obs.call = "load_index"    -> ~obs.pre_disk.has_index \/ obs.fault = "io"

\* C25: a dump or load of the data file, the metadata file or the index that
\* meets a failure (unwritable target, missing or unreadable source) raises to
\* the caller; none is swallowed or skipped.
C25_PersistenceFailureRaised ==
    (Observed("persistence") /\ PersistenceFailed) => obs.exc # "None"

\* ------------------------------------------------------------------------
\* Properties of one merge call (SpecMerge)

\* the non-null keys of a list in order of first appearance
RECURSIVE KeysInOrder(_, _, _)
KeysInOrder(items, i, seen) ==
    IF i > Len(items) THEN seen
    ELSE LET k == key_extractor(items[i])
         IN  IF k = None \/ \E j \in 1..Len(seen) : seen[j] = k
             THEN KeysInOrder(items, i + 1, seen)
             ELSE KeysInOrder(items, i + 1, Append(seen, k))

\* C29: merge returns one record per distinct non-null key of its input,
\* in order of first appearance of the key (so an empty list for an empty
\* input and for an input whose fragments all have a null key), and never
\* raises; the record of a key with one fragment is that fragment, and an
\* input with one fragment per key takes no round.
C29_OneRecordPerKey ==
    (pc # "merge" /\ obs.op = "merge") =>
        LET ks == KeysInOrder(call_items, 1, <<>>)
        IN  /\ pc = "done"
            /\ Len(obs.items) = Len(ks)
            /\ \A i \in 1..Len(ks) :
                  /\ key_extractor(obs.items[i]) = ks[i]
                  /\ Len(FragmentsOf(call_items, ks[i])) = 1 =>
                        obs.items[i] = FragmentsOf(call_items, ks[i])[1]
            /\ (\A i \in 1..Len(ks) : Len(FragmentsOf(call_items, ks[i])) = 1) =>
                  batch_calls = 0

\* a merge call has returned
Merged == pc = "done" /\ obs.op = "merge"

\* the number of pairs the keys before the i-th key hand to a round
PairOffset(key_rounds, i) ==
    SetSum({<<j, Len(key_rounds[j].items) \div 2>> : j \in 1..(i - 1)})

\* C26: in every round a key's list of length n > 1 is paired by position,
\* (0,1), (2,3), ..., whatever the records are; the next list holds the
\* merged pairs in the order of the pairs and then, when n is odd, the
\* unmerged last element: ceil(n/2) elements.  A list of length 1 stays.
C26_PairingByPosition ==
    Merged =>
        \A r \in 1..Len(merge_log) :
            \A i \in 1..Len(merge_log[r].key_rounds) :
                LET e == merge_log[r]
                    cur == e.key_rounds[i].items
                    nxt == e.next_rounds[i].items
                    n == Len(cur)
                    off == PairOffset(e.key_rounds, i)
                IN  IF n > 1
                    THEN /\ \A j \in 1..(n \div 2) :
                               /\ e.pairs[off + j] = <<cur[2 * j - 1], cur[2 * j]>>
                               /\ nxt[j] = pair_merge(strategy, cur[2 * j - 1], cur[2 * j])
                         /\ Len(nxt) = (n + 1) \div 2
                         /\ n % 2 = 1 => nxt[Len(nxt)] = cur[n]
                    ELSE nxt = cur

\* a round of FieldMerge in which the second key has three fragments: the
\* first two are merged into a record that is neither of them, the third,
\* which differs from both, is carried over
C26_Witness ==
    /\ Merged /\ strategy = "merge_field" /\ Len(merge_log) = 2
    /\ Len(merge_log[1].key_rounds) = 2
    /\ Len(merge_log[1].key_rounds[1].items) = 2
    /\ LET cur == merge_log[1].key_rounds[2].items
           nxt == merge_log[1].next_rounds[2].items
       IN  /\ Len(cur) = 3 /\ Len(nxt) = 2
           /\ nxt[1] \notin {cur[1], cur[2], cur[3]}
           /\ nxt[2] = cur[3] /\ cur[3] \notin {cur[1], cur[2]}

\* the position in key_rounds of the key whose pairs include the p-th pair
\* of a round
PairOwner(key_rounds, p) ==
    CHOOSE i \in 1..Len(key_rounds) :
        /\ PairOffset(key_rounds, i) < p
        /\ p <= PairOffset(key_rounds, i) + Len(key_rounds[i].items) \div 2

\* C28: every batch_merge call is one whole round: it is handed the pairs of
\* all keys whose list is longer than 1, the i-th result goes to the next
\* list of the key the i-th pair came from, at the pair's position, and the
\* next round starts from exactly the lists this round left (the first from
\* the grouped input), so a round is formed only after the one before it
\* has returned.
C28_OneBatchPerRound ==
    Merged =>
        /\ merge_log # <<>> => merge_log[1].key_rounds = group_by_key(call_items)
        /\ \A r \in 1..Len(merge_log) :
              LET e == merge_log[r]
              IN  /\ \E i \in 1..Len(e.key_rounds) : Len(e.key_rounds[i].items) > 1
                  /\ Len(e.pairs) = PairOffset(e.key_rounds, Len(e.key_rounds) + 1)
                  /\ Len(e.results) = Len(e.pairs)
                  /\ \A p \in 1..Len(e.pairs) :
                        LET i == PairOwner(e.key_rounds, p)
                            j == p - PairOffset(e.key_rounds, i)
                        IN  /\ key_extractor(e.pairs[p][1]) = e.key_rounds[i].key
                            /\ key_extractor(e.pairs[p][2]) = e.key_rounds[i].key
                            /\ e.results[p] = pair_merge(strategy, e.pairs[p][1], e.pairs[p][2])
                            /\ e.next_rounds[i].items[j] = e.results[p]
                  /\ IF r < Len(merge_log)
                     THEN merge_log[r + 1].key_rounds = e.next_rounds
                     ELSE /\ \A i \in 1..Len(e.next_rounds) : Len(e.next_rounds[i].items) = 1
                          /\ obs.items = [i \in 1..Len(e.next_rounds) |-> e.next_rounds[i].items[1]]

\* a round of FieldMerge with pairs of two keys whose results differ,
\* followed by a round with a pair of the first key only
C28_Witness ==
    /\ Merged /\ strategy = "merge_field" /\ Len(merge_log) = 2
    /\ Len(merge_log[1].key_rounds) = 2
    /\ Len(merge_log[1].pairs) = 2
    /\ merge_log[1].results[1] # merge_log[1].results[2]
    /\ key_extractor(merge_log[1].pairs[1][1]) # key_extractor(merge_log[1].pairs[2][1])
    /\ Len(merge_log[2].pairs) = 1
    /\ merge_log[2].pairs[1][1] = merge_log[1].results[1]

\* the sizes of the groups the tournament starts from
GroupSizes == {Len(group_by_key(call_items)[i].items) : i \in 1..Len(group_by_key(call_items))}

\* C30: on every input that has a fragment with a key the tournament ends:
\* each round leaves every list that was longer than 1 strictly shorter and
\* not empty, the rounds number exactly ceil(log2(n)) for the largest group
\* size n, and at the end every key's list has length 1.
C30_TournamentTerminates ==
    /\ (pc # "merge" /\ obs.op = "merge" /\ GroupSizes # {}) => pc = "done"
    /\ (Merged /\ GroupSizes # {}) =>
          /\ \A r \in 1..Len(merge_log) :
                \A i \in 1..Len(merge_log[r].key_rounds) :
                    LET n == Len(merge_log[r].key_rounds[i].items)
                        m == Len(merge_log[r].next_rounds[i].items)
                    IN  IF n > 1 THEN 1 <= m /\ m < n ELSE m = n
          /\ Len(merge_log) = CeilLog2(SetMax(GroupSizes))
          /\ batch_calls = Len(merge_log)
          /\ IF merge_log = <<>>
             THEN GroupSizes = {1}
             ELSE \A i \in 1..Len(merge_log[Len(merge_log)].next_rounds) :
                     Len(merge_log[Len(merge_log)].next_rounds[i].items) = 1

\* a key with five fragments: three rounds, the lists of
\* the first key of lengths 5, 3, 2 and 1
C30_Witness ==
    /\ Merged /\ Len(merge_log) = 3
    /\ \E i \in 1..Len(merge_log[1].key_rounds) :
          /\ Len(merge_log[1].key_rounds[i].items) = 5
          /\ Len(merge_log[2].key_rounds[i].items) = 3
          /\ Len(merge_log[3].key_rounds[i].items) = 2
          /\ Len(merge_log[3].next_rounds[i].items) = 1

\* ------------------------------------------------------------------------
\* Properties of the order of merging within a key (SpecCall)

\* the items of a list named by their place among the items of their key:
\* the i-th item of key k becomes [uid |-> k, lo |-> i, hi |-> i]
Label(items) ==
    [p \in 1..Len(items) |->
        LET n == Cardinality({q \in 1..p : key_extractor(items[q]) = key_extractor(items[p])})
        IN  [uid |-> key_extractor(items[p]), lo |-> n, hi |-> n]]

\* the list add hands to the merge engine, and the engine's run on that
\* list with every item replaced by its name
MergeInput == to_merge(pre_storage, call_items)
LabelledRun == merge("span", Label(MergeInput))

\* the group of key k among the groups the engine forms
GroupOf(groups, k) == groups[KeyIndex(groups, k)].items

\* C27: every pair handed to the policy merges two adjacent runs of the
\* key's fragment list, the earlier one as existing and the later one as
\* incoming (round 1 merges single fragments); the record stored for the key
\* before the call is the first fragment of its group, so it is the existing
\* side of the key's first pair of round 1 and no incoming side ever covers it.
C27_AdjacentRunsExistingFirst ==
    pc = "done" =>
        LET lab == LabelledRun.log
            groups == group_by_key(MergeInput)
        IN  /\ Len(lab) = Len(merge_log)
            /\ \A r \in 1..Len(merge_log) :
                  /\ Len(lab[r].pairs) = Len(merge_log[r].pairs)
                  /\ \A p \in 1..Len(merge_log[r].pairs) :
                        LET e == lab[r].pairs[p][1]
                            n == lab[r].pairs[p][2]
                            k == key_extractor(merge_log[r].pairs[p][1])
                        IN  /\ e.uid = k /\ n.uid = k
                            /\ key_extractor(merge_log[r].pairs[p][2]) = k
                            /\ 1 <= e.lo /\ e.lo <= e.hi
                            /\ n.lo = e.hi + 1 /\ n.lo <= n.hi
                            /\ n.hi <= Len(GroupOf(groups, k))
                            /\ r = 1 => /\ e.lo = e.hi /\ n.lo = n.hi
                                        /\ merge_log[r].pairs[p] =
                                              <<GroupOf(groups, k)[e.lo], GroupOf(groups, k)[n.lo]>>
            /\ \A k \in MergedKeys \cap DOMAIN pre_storage :
                  /\ GroupOf(groups, k)[1] = pre_storage[k]
                  /\ GroupOf(groups, k) = Group(k)
                  /\ \E p \in 1..Len(merge_log[1].pairs) :
                        /\ lab[1].pairs[p][1] = [uid |-> k, lo |-> 1, hi |-> 1]
                        /\ merge_log[1].pairs[p][1] = pre_storage[k]

\* a stored record and four fragments of its key, the first of them equal
\* to the stored record: round 2 merges the runs 1..2 and 3..4, round 3 the
\* run 1..4 and the fifth fragment
C27_Witness ==
    /\ pc = "done" /\ Len(merge_log) = 3
    /\ "k1" \in DOMAIN pre_storage
    /\ Len(call_items) = 4 /\ call_items[1] = pre_storage["k1"]
    /\ LabelledRun.log[2].pairs = << <<[uid |-> "k1", lo |-> 1, hi |-> 2],
                                      [uid |-> "k1", lo |-> 3, hi |-> 4]>> >>
    /\ LabelledRun.log[3].pairs = << <<[uid |-> "k1", lo |-> 1, hi |-> 4],
                                      [uid |-> "k1", lo |-> 5, hi |-> 5]>> >>

\* ------------------------------------------------------------------------
\* Properties of the work done per key by one merge call (SpecMerge)

\* the rounds in which the i-th key has a pair, i.e. a list longer than 1
RoundsOfKey(i) ==
    {r \in 1..Len(merge_log) : Len(merge_log[r].key_rounds[i].items) > 1}

\* C31: a key with n fragments has a pair in exactly ceil(log2(n)) rounds,
\* the first ones; from then on its list has length 1 and it hands no pair
\* to the rounds run for keys with more fragments.
C31_RoundsPerKey ==
    (Merged /\ GroupSizes # {}) =>
        \A i \in 1..Len(group_by_key(call_items)) :
            LET n == Len(group_by_key(call_items)[i].items)
                k == group_by_key(call_items)[i].key
            IN  /\ RoundsOfKey(i) = 1..CeilLog2(n)
                /\ \A r \in 1..Len(merge_log) :
                      /\ merge_log[r].key_rounds[i].key = k
                      /\ r \in RoundsOfKey(i) <=>
                            \E p \in 1..Len(merge_log[r].pairs) :
                                key_extractor(merge_log[r].pairs[p][1]) = k
                      /\ r > CeilLog2(n) =>
                            /\ Len(merge_log[r].key_rounds[i].items) = 1
                            /\ merge_log[r].next_rounds[i].items = merge_log[r].key_rounds[i].items

\* a key with two fragments next to a key with three: the first has a pair
\* in round 1 only and keeps its merged record through round 2
C31_Witness ==
    /\ Merged /\ Len(merge_log) = 2 /\ strategy = "merge_field"
    /\ Len(merge_log[1].key_rounds) = 2
    /\ Len(merge_log[1].key_rounds[1].items) = 2
    /\ Len(merge_log[1].key_rounds[2].items) = 3
    /\ Len(merge_log[2].pairs) = 1
    /\ RoundsOfKey(1) = {1} /\ RoundsOfKey(2) = {1, 2}
    /\ obs.items[1] = merge_log[1].results[1]

\* C32: the pairs merged for a key with n fragments, summed over the rounds,
\* number exactly n - 1, so one merge call hands the policy the sum over the
\* keys of (n_k - 1) pairs in all.
C32_PairMergesPerKey ==
    (Merged /\ GroupSizes # {}) =>
        /\ \A i \in 1..Len(group_by_key(call_items)) :
              PairCount(group_by_key(call_items)[i].key) =
                  Len(group_by_key(call_items)[i].items) - 1
        /\ SetSum({<<r, Len(merge_log[r].pairs)>> : r \in 1..Len(merge_log)}) =
              SetSum({<<i, Len(group_by_key(call_items)[i].items) - 1>> :
                      i \in 1..Len(group_by_key(call_items))})

\* five fragments of one key: three rounds, four pair merges
C32_Witness ==
    /\ Merged /\ Len(merge_log) = 3
    /\ Len(group_by_key(call_items)) = 1
    /\ Len(group_by_key(call_items)[1].items) = 5
    /\ PairCount("k1") = 4
    /\ Len(merge_log[1].pairs) = 2 /\ Len(merge_log[2].pairs) = 1 /\ Len(merge_log[3].pairs) = 1

\* ------------------------------------------------------------------------
\* Properties of the lookup updates of one observed add (SpecObserve)

\* whether key k was in the bucket of value v before the observed call
InBucketBefore(name, k, v) ==
    /\ name \in DOMAIN obs.pre.lookups
    /\ v \in DOMAIN obs.pre.lookups[name]
    /\ k \in obs.pre.lookups[name][v]

\* whether the extractor of the lookup yields the value v on the item
Yields(name, item, v) ==
    LET r == call_extractor(lookup_extractors[name], item)
    IN  r.tag = "value" /\ r.val = v

\* C33: after an add that returns, the key of the call is in a bucket exactly
\* when the record now stored yields the bucket's value (the addition), or
\* when the key was there before and the record stored before the call did
\* not yield that value (the eviction, computed from the pre-call record and
\* applied first, so that an unchanged value stays indexed); a key that was
\* not stored is evicted from nothing.
C33_EvictionFromPreCallRecord ==
    (Observed("add") /\ obs.exc = "None" /\ obs.items # <<>>) =>
        LET k == key_extractor(obs.items[1])
        IN  \A name \in DOMAIN lookups : \A v \in LookupValues :
                k \in Bucket(name, v) <=>
                    \/ Yields(name, storage[k], v)
                    \/ /\ InBucketBefore(name, k, v)
                       /\ ~(k \in DOMAIN obs.pre.storage
                            /\ Yields(name, obs.pre.storage[k], v))

\* a stored key is merged with a fragment that has no name and another first
\* skill: the merged record keeps the name, so the key stays in the bucket
\* of the name, and it moves from the bucket of the old skill to the new one
C33_Witness ==
    /\ Observed("add") /\ obs.exc = "None"
    /\ obs.items = <<Profile("k1", None, <<"q">>)>>
    /\ "k1" \in DOMAIN obs.pre.storage
    /\ obs.pre.storage["k1"] = Profile("k1", "a", <<"p">>)
    /\ storage["k1"] = Profile("k1", "a", <<"q">>)
    /\ DOMAIN lookup_extractors = {"by_name", "by_skill"}
    /\ lookup_extractors["by_skill"] = "first_skill"
    /\ InBucketBefore("by_name", "k1", "a")
    /\ InBucketBefore("by_skill", "k1", "p")
    /\ "k1" \in Bucket("by_name", "a")
    /\ "k1" \notin Bucket("by_skill", "p")
    /\ "k1" \in Bucket("by_skill", "q")

\* ------------------------------------------------------------------------
\* Properties of one add call that may fail (SpecAtomic)

\* C34: when add raises, whatever the reason (a foreign object, the key
\* extractor raising, the policy raising, batch_merge returning too few
\* results, no keyed fragment to merge), the store, every lookup and the
\* vector index are as before the call: neither a merged key nor a direct
\* insert of the call has been applied.
C34_RaisingAddChangesNothing ==
    pc = "raised" => (obs.exc # "None" /\ StateAsBefore)

\* batch_merge returns too few results for the pair of a stored key while
\* the call also brings a fragment of a key that is not stored, the lookups
\* hold buckets and the index is built
C34_Witness ==
    /\ pc = "raised" /\ obs.exc = "IndexError"
    /\ \E i \in 1..Len(call_items) : key_extractor(call_items[i]) \in DOMAIN obs.pre.storage
    /\ to_insert(obs.pre.storage, call_items) # <<>>
    /\ obs.pre.index.built
    /\ DOMAIN obs.pre.lookups = {"by_name", "by_skill"}
    /\ obs.pre.lookups["by_name"] # EmptyDict
    /\ obs.pre.lookups["by_skill"] # EmptyDict

\* the non-null keys of the fragments of the call
NonNullCallKeys ==
    {key_extractor(call_items[i]) : i \in 1..Len(call_items)} \ {None}

\* the group of key k: the record stored before the call, if any, followed by
\* the call's fragments of k
KeyGroup(k) ==
    (IF k \in DOMAIN obs.pre.storage THEN <<obs.pre.storage[k]>> ELSE <<>>)
    \o FragmentsOf(call_items, k)

\* every non-null key of the call holds the merge result of its group
StoresMergeResults ==
    \A k \in NonNullCallKeys :
        /\ k \in DOMAIN storage
        /\ storage[k] = merge(strategy, KeyGroup(k)).items[1]

\* C35: after add returns, the key set is the previous key set plus the
\* non-null keys of the fragments, and each of these keys holds the merge
\* result of its group, under any policy that returns schema instances,
\* also one whose merged record carries another key than its inputs.
C35_KeySetAndMergeResults ==
    pc = "done" =>
        /\ DOMAIN storage = DOMAIN obs.pre.storage \cup NonNullCallKeys
        /\ StoresMergeResults

\* the same for the policies whose result keeps the key of its inputs, the
\* null key left aside
KeyPreservingAddStoresMergeResults ==
    (pc = "done" /\ strategy # "rekey") =>
        /\ DOMAIN storage \ {None} = (DOMAIN obs.pre.storage \cup NonNullCallKeys) \ {None}
        /\ StoresMergeResults

\* what add does under a policy that changes the key: the merged
\* record is filed under the key it carries, the key of the group keeps the
\* record it had
RekeyedResultFiledUnderItsOwnKey ==
    (pc = "done" /\ strategy = "rekey" /\ call_items = <<Profile("k1", "b", <<>>)>>
        /\ "k1" \in DOMAIN obs.pre.storage) =>
        /\ storage["k1"] = obs.pre.storage["k1"]
        /\ storage["k2"] = Profile("k2", "b", <<>>)

\* ------------------------------------------------------------------------
\* Properties of clear (Spec)

\* C37: a clear() leaves the store empty, the vector index discarded and no
\* key in any bucket of any registered lookup.
C37_ClearEmptiesLookups ==
    [][Clear => /\ storage' = EmptyDict
                /\ ~index'.built
                /\ \A name \in DOMAIN lookups' : \A v \in DOMAIN lookups'[name] :
                      lookups'[name][v] = {}]_vars

\* what clear() does to the lookups: nothing
ClearKeepsLookups ==
    [][Clear => /\ storage' = EmptyDict
                /\ ~index'.built
                /\ lookups' = lookups
                /\ lookup_extractors' = lookup_extractors]_vars

\* a key added again after a clear() is found under its old value as well
StaleBucketAfterClear ==
    /\ "by_name" \in DOMAIN lookups
    /\ "k1" \in DOMAIN storage
    /\ storage["k1"].name = "b"
    /\ "k1" \in Bucket("by_name", "a")
    /\ "k1" \in Bucket("by_name", "b")

\* ------------------------------------------------------------------------
\* Properties of the remote-reasoning policies (SpecLLM)

LLMReturned == pc = "done" /\ obs.op = "llm_batch_merge"

LLMChainFailureRaises ==
    (pc \in {"done", "raised"} /\ ~obs.chain_ok /\ call_items # <<>>) => pc = "raised"

\* ------------------------------------------------------------------------
\* Properties of load_data into a store that is not empty (SpecReload)

Reloaded == pc \in {"done", "raised"} /\ obs.op = "load_data"

\* the record written to the file under key k, as load_data reads it back
FileRecord(k) == memory_schema(model_dump_json(disk.source[k]))

\* the records expected under the keys in ks after the load: a key of the file
\* that was stored holds the merge of the stored record with the loaded one
\* as incoming, a key of the file that was not stored holds the loaded
\* record, a stored key that is not in the file keeps its record
LoadedInto(ks) ==
    \A k \in ks :
        /\ k \in DOMAIN storage
        /\ storage[k] =
              IF k \notin DOMAIN disk.source THEN obs.pre.storage[k]
              ELSE IF k \in DOMAIN obs.pre.storage
                   THEN pair_merge(strategy, obs.pre.storage[k], FileRecord(k))
                   ELSE FileRecord(k)

\* every bucket of every registered lookup holds exactly the stored keys
\* whose record yields the bucket's value
LookupsSynchronized ==
    \A name \in DOMAIN lookups : \A v \in LookupValues :
        Bucket(name, v) = KeysWithValue(name, v)

\* C39: load_data on a store that holds records returns with every loaded
\* record merged into the stored record of its key as the incoming fragment
\* (or inserted when its key was not stored), the other keys kept, no key
\* added beyond those of the store and the file, and every registered
\* lookup synchronized with the resulting records.
C39_LoadMergesIntoStore ==
    Reloaded =>
        /\ obs.exc = "None"
        /\ DOMAIN storage = DOMAIN obs.pre.storage \cup DOMAIN disk.source
        /\ LoadedInto(DOMAIN storage)
        /\ LookupsSynchronized

\* the same when neither the store nor the file holds a record under the key
\* None
KeyedLoadMergesIntoStore ==
    (Reloaded /\ None \notin DOMAIN obs.pre.storage \cup DOMAIN disk.source) =>
        /\ obs.exc = "None"
        /\ DOMAIN storage = DOMAIN obs.pre.storage \cup DOMAIN disk.source
        /\ LoadedInto(DOMAIN storage)
        /\ LookupsSynchronized

\* with the key None on both sides only the keyed records are merged (the
\* record under None stays as stored), and the load raises when the key None
\* is the only one on both sides
NullKeyLoadIsNotMerged ==
    (Reloaded /\ None \in DOMAIN obs.pre.storage \cap DOMAIN disk.source) =>
        IF DOMAIN obs.pre.storage \cap DOMAIN disk.source = {None}
        THEN pc = "raised" /\ obs.exc = "ValueError" /\ StateAsBefore
        ELSE /\ pc = "done"
             /\ storage[None] = obs.pre.storage[None]
             /\ LoadedInto(DOMAIN storage \ {None})
             /\ LookupsSynchronized

\* a load that merges one key under MERGE_FIELD, inserts another and keeps a
\* third, with both lookups registered
KeyedLoadWitness ==
    /\ Reloaded /\ pc = "done" /\ strategy = "merge_field"
    /\ DOMAIN lookups = {"by_name", "by_skill"}
    /\ DOMAIN obs.pre.storage = {"k1"}
    /\ DOMAIN disk.source = {"k1", "k2"}
    /\ obs.pre.storage["k1"] # disk.source["k1"]
    /\ storage["k1"] # obs.pre.storage["k1"]
    /\ storage["k1"] # disk.source["k1"]

\* ------------------------------------------------------------------------
\* Properties of two concurrent callers (SpecRace)

\* the store, lookups and index after one whole call made on state st
AfterAddCall(r) == [storage |-> r.storage, lookups |-> r.lookups, index |-> r.index]

AfterCall(st, call) ==
    IF call.kind = "add"
    THEN AfterAddCall(add(st.storage, st.lookups, lookup_extractors, st.index, strategy,
                          <<call.item>>))
    ELSE AfterAddCall(remove(st.storage, st.lookups, lookup_extractors, st.index, call.key))

\* the outcome of the two calls made one after the other, c1's first
Serial(c1, c2) ==
    AfterCall(AfterCall([storage |-> obs.pre.storage, lookups |-> obs.pre.lookups,
                         index |-> obs.pre.index], obs.t[c1].call),
              obs.t[c2].call)

Now == [storage |-> storage, lookups |-> lookups, index |-> index]

AllReturned == \A c \in Callers : obs.t[c].pc \in {"done", "raised"}

\* C38: when the callers wrap every add and remove call in one writer lock,
\* no call begins while another is under way, the lookups are synchronized
\* with the store whenever the lock is free, no call raises for a key that
\* vanished under it, and once both calls have returned the store, the
\* lookups and the index are those of the two calls made one after the
\* other: every fragment has been merged.  OMem itself takes no lock, and
\* without the callers' lock the interleaved state below is reached.
C38_WriterLockSerializes ==
    obs.use_lock =>
        /\ \A c \in Callers :
              obs.t[c].pc \notin {"start", "done", "raised"} => obs.holder = c
        /\ obs.holder = 0 => LookupsSynchronized
        /\ \A c \in Callers :
              (obs.t[c].call.kind = "remove" => obs.t[c].pc # "raised")
        /\ AllReturned => (Now = Serial(1, 2) \/ Now = Serial(2, 1))

\* no lock, two adds of fragments of the stored key k1 under MERGE_FIELD,
\* both read the stored record before either writes: both return, the
\* stored record lacks the name the first caller submitted (in either
\* order of whole calls it would have one of the two callers' values in
\* every field they set), and the bucket of that name still lists k1
C38_Witness ==
    /\ ~obs.use_lock
    /\ strategy = "merge_field"
    /\ \A c \in Callers : obs.t[c].pc = "done" /\ obs.t[c].call.kind = "add"
    /\ obs.t[1].call.item = Profile("k1", "b", <<>>)
    /\ obs.t[2].call.item = Profile("k1", None, <<"q">>)
    /\ obs.pre.storage = [k \in {"k1"} |-> Profile("k1", "a", <<"p">>)]
    /\ storage["k1"] = Profile("k1", "a", <<"q">>)
    /\ Now # Serial(1, 2) /\ Now # Serial(2, 1)
    /\ "k1" \in Bucket("by_name", "b")
    /\ ~LookupsSynchronized

\* with the lock, the same two calls end in one of the two serial outcomes
LockedSameKeyAdds ==
    /\ obs.use_lock
    /\ strategy = "merge_field"
    /\ \A c \in Callers : obs.t[c].pc = "done" /\ obs.t[c].call.kind = "add"
    /\ obs.t[1].call.item = Profile("k1", "b", <<>>)
    /\ obs.t[2].call.item = Profile("k1", None, <<"q">>)
    /\ obs.pre.storage = [k \in {"k1"} |-> Profile("k1", "a", <<"p">>)]
    /\ storage["k1"] = Profile("k1", "b", <<"q">>)

\* without the lock a remove can raise KeyError for a key another remove
\* deleted after the test
UnlockedRemoveRaises ==
    /\ ~obs.use_lock
    /\ \E c \in Callers : obs.t[c].call.kind = "remove" /\ obs.t[c].pc = "raised"

====
